---- MODULE Spec2Model ----
(***************************************************************************)
(* State-machine model of isyntax2pyramidaltiff.py: the conversion driver  *)
(* (ISyntax2PyramidalTIFF.convert), the patch planner (create_patch_list), *)
(* the batched fetch loop with its bounded worker pool (MaxQueuePool over  *)
(* a ThreadPoolExecutor) and the tile assembly jobs (process_tile) that    *)
(* write into the shared full-resolution array.                            *)
(*                                                                         *)
(* Python sequences are 0-based; TLA+ sequences are 1-based.  A dimension  *)
(* range dim_range = [origin, step, end] is the tuple <<origin, step,      *)
(* end>>, so dim_range[0] of the source is d[1] here.  dim_ranges[1] is    *)
(* the x axis and dim_ranges[2] the y axis.                                *)
(***************************************************************************)
EXTENDS Integers, Sequences, FiniteSets, TLC

\* ------------------------------------------------------------------------
\* Bounds of the model (not program constants).
\* ------------------------------------------------------------------------
\* largest width and height of the image, in pixels
MaxSize == 2
\* largest configured tile size
MaxTile == 2
\* the same two bounds for the specification of the planning stage alone
PlanMaxSize == 5
PlanMaxTile == 3
\* largest max_workers
MaxWorkers == 2
\* largest batch_size
MaxBatch == 2
\* most patches of a modelled run (x_tiles * y_tiles)
MaxPatches == 4
\* the failures a run may meet, each at most once: an exception inside
\* process_tile, an exception raised by region.get, an exception raised by
\* the write of a pyramid level, an exception raised by the fallback save
FaultKinds == {"assembly", "source", "level", "fallback"}
\* the failures a run of the writer stage may meet, each at most once: while
\* extracting the macro or the label image, in generate_pyramid_levels, in
\* the write of a level, of the macro image, of the label image, in the
\* fallback save, in the save of the additional 512 x 512 pyramid
SaveFaultKinds == {"macro", "label", "generate", "level", "macro_write",
                   "label_write", "fallback", "save_512"}
\* the values of compression, quality and pyramid_512 of the writer stage
Compressions == {"jpeg", "JPEG", "lzw", "deflate", "none"}
Qualities == {75, 80}
\* the associated images a source may hold
AllImages == {"MACROIMAGE", "LABELIMAGE"}
\* pixel sizes the source reports for the two axes
ScaleFactors == {<< 0, 0 >>, << 1, 2 >>}
\* output paths, character by character: slide.tiff, slide.tif, a path
\* without extension, and paths holding an extension in a directory name
slide_tiff == << "s", ".", "t", "i", "f", "f" >>
OutputPaths == { slide_tiff,
                 << "s", ".", "t", "i", "f" >>,
                 << "s" >>,
                 << "d", ".", "t", "i", "f", "f", "/", "s", ".", "t", "i", "f" >>,
                 << "d", ".", "t", "i", "f", "/", "s", ".", "t", "i", "f", "f" >> }
\* the images, tile sizes, worker counts and batch sizes of the runs with
\* clipped tiles: 3 x 3 and 3 x 1 pixels in tiles of 2, so 4 and 2 patches
GridSources ==
    { [origin |-> << 0, 0 >>, step |-> << 1, 1 >>, rem |-> << 0, 0 >>, cut |-> 0],
      [origin |-> << 2, 1 >>, step |-> << 2, 2 >>, rem |-> << 0, 0 >>, cut |-> 1] }
GridSizes == { << 3, 3 >>, << 3, 1 >> }
GridTileSizes == {2}
GridWorkers == {2}
GridBatchSizes == {2, 3}
\* the calls of process_tile taken alone: canvas shapes (rows, columns),
\* tile sizes, grid ids and realized sizes, some reaching past the canvas
TileCanvasShapes == { << 2, 3 >>, << 3, 2 >>, << 1, 1 >> }
TileSizes == {1, 2}
TileIds == 0..2
TileExtents == 1..2
\* most worker processes of a modelled batch
MaxFileWorkers == 2
\* input directories: no iSyntax file; two files; one slide in both
\* formats; names that differ in characters the output name replaces
InputDirs ==
    { { << "a", ".", "t", "x", "t" >> },
      { << "a" >> \o << ".", "i", "s", "y", "n", "t", "a", "x" >>,
        << "b" >> \o << ".", "i", "s", "y", "n", "t", "a", "x" >> },
      { << "a" >> \o << ".", "i", "s", "y", "n", "t", "a", "x" >>,
        << "a" >> \o << ".", "i", "2", "s", "y", "n", "t", "a", "x" >> },
      { << "a", "(", "b", ")" >> \o << ".", "i", "s", "y", "n", "t", "a", "x" >>,
        << "a", " ", "b" >> \o << ".", "i", "s", "y", "n", "t", "a", "x" >>,
        << "b" >> \o << ".", "i", "s", "y", "n", "t", "a", "x" >> } }
\* tile sizes of the writer stage
SaveTileSizes == {1024}
\* raster sizes (width, height) of the writer stage
RasterSamples == {<< 100, 100 >>, << 300, 300 >>, << 1000, 600 >>,
                  << 1025, 2049 >>, << 2048, 300 >>}
\* the widths and heights over which the level lists are compared
LevelSizes == {100, 255, 256, 257, 300, 511, 512, 513, 600, 1000, 1023, 1024,
               1025, 2047, 2048, 2049, 4097}

\* what the tile source may report for the two axes: the origins, the
\* steps, how far each end lies past the last whole step, and how many
\* pixel columns before the right edge the data envelope ends
SourceSamples ==
    { [origin |-> << 0, 0 >>, step |-> << 1, 1 >>, rem |-> << 0, 0 >>, cut |-> 0],
      [origin |-> << 2, 1 >>, step |-> << 2, 2 >>, rem |-> << 0, 0 >>, cut |-> 1],
      [origin |-> << 2, 1 >>, step |-> << 2, 2 >>, rem |-> << 1, 0 >>, cut |-> 0],
      [origin |-> << 0, 0 >>, step |-> << 2, 2 >>, rem |-> << 0, 1 >>, cut |-> 0],
      [origin |-> << 0, 0 >>, step |-> << 1, 2 >>, rem |-> << 0, 0 >>, cut |-> 0],
      [origin |-> << 0, 0 >>, step |-> << 2, 4 >>, rem |-> << 0, 0 >>, cut |-> 0],
      [origin |-> << 0, 1 >>, step |-> << 3, 3 >>, rem |-> << 0, 0 >>, cut |-> 1] }

\* ------------------------------------------------------------------------
\* Program constants.
\* ------------------------------------------------------------------------
\* __init__(..., fill_color=255, ...)
fill_color == 255
\* number of samples per pixel (RGB)
Channels == 3

Min(a, b) == IF a <= b THEN a ELSE b

\* ------------------------------------------------------------------------
\* DimensionModel: get_size and the scale check of create_patch_list.
\* ------------------------------------------------------------------------
\* get_size without the is_integer check: the quotient is truncated
get_size_never_raises(dim_range) == FALSE

\* get_size raises ValueError when (end - origin) / step is not an integer
get_size_raises(dim_range) ==
    (dim_range[3] - dim_range[1]) % dim_range[2] # 0

\* get_size: int((end - origin) / step)
get_size(dim_range) ==
    (dim_range[3] - dim_range[1]) \div dim_range[2]

\* math.log2(scale).is_integer() for a positive integer scale
RECURSIVE log2_is_integer(_)
log2_is_integer(scale) ==
    IF scale = 1 THEN TRUE
    ELSE IF scale < 1 \/ scale % 2 # 0 THEN FALSE
    ELSE log2_is_integer(scale \div 2)

\* int(math.log2(scale)) for a power of two
RECURSIVE log2(_)
log2(scale) == IF scale <= 1 THEN 0 ELSE 1 + log2(scale \div 2)

\* math.ceil(a / b) for positive b
ceil_div(a, b) == (a + b - 1) \div b

\* tile counts computed as size // tile_size + 1 instead of the ceiling
tiles_of_floor_plus_one(ranges, ts) ==
    << get_size(ranges[1]) \div ts + 1, get_size(ranges[2]) \div ts + 1 >>

\* x_tiles, y_tiles of extract_full_resolution_tiles
tiles_of(ranges, ts) ==
    << ceil_div(get_size(ranges[1]), ts), ceil_div(get_size(ranges[2]), ts) >>

\* ------------------------------------------------------------------------
\* PatchPlanner: create_patch_list.
\* ------------------------------------------------------------------------
\* the scale check: scale_x != scale_y or not level.is_integer()
create_patch_list_raises(ranges) ==
    \/ ranges[1][2] # ranges[2][2]
    \/ ~log2_is_integer(ranges[1][2])

\* patch ends clipped to the axis end itself instead of axis end - step
patch_at_end_inclusive(ranges, tsize, x, y) ==
    LET scale_x == ranges[1][2]
        scale_y == ranges[2][2]
        tile_size_x == tsize[1] * scale_x
        tile_size_y == tsize[2] * scale_y
        y_start == ranges[2][1] + (y * tile_size_y)
        y_end == Min((y_start + tile_size_y) - scale_y, ranges[2][3])
        x_start == ranges[1][1] + (x * tile_size_x)
        x_end == Min((x_start + tile_size_x) - scale_x, ranges[1][3])
    IN  << x_start, x_end, y_start, y_end, log2(scale_x) >>

\* patch of grid cell (x, y): [x_start, x_end, y_start, y_end, level]
patch_at(ranges, tsize, x, y) ==
    LET resolution_x_end == ranges[1][3]
        resolution_y_end == ranges[2][3]
        origin_x == ranges[1][1]
        origin_y == ranges[2][1]
        scale_x == ranges[1][2]
        scale_y == ranges[2][2]
        tile_size_x == tsize[1] * scale_x
        tile_size_y == tsize[2] * scale_y
        y_start == origin_y + (y * tile_size_y)
        y_end == Min((y_start + tile_size_y) - scale_y, resolution_y_end - scale_y)
        x_start == origin_x + (x * tile_size_x)
        x_end == Min((x_start + tile_size_x) - scale_x, resolution_x_end - scale_x)
    IN  << x_start, x_end, y_start, y_end, log2(scale_x) >>

\* the two parallel lists built by the nested loops (y outer, x inner):
\* entry k (1-based) is grid cell x = (k-1) mod tiles_x, y = (k-1) div tiles_x
create_patch_list(ranges, tiles, tsize) ==
    LET tiles_x == tiles[1]
        tiles_y == tiles[2]
        n == tiles_x * tiles_y
        cell(k) == << (k - 1) % tiles_x, (k - 1) \div tiles_x >>
    IN  [ patches |-> [k \in 1..n |-> patch_at(ranges, tsize, cell(k)[1], cell(k)[2])],
          patch_ids |-> [k \in 1..n |-> cell(k)] ]

\* ------------------------------------------------------------------------
\* State.
\* ------------------------------------------------------------------------
VARIABLES
    dim_ranges,       \* dimension_ranges(image, 0) of the WSI image
    envelopes,        \* data_envelopes(image, 0): the scanned area
    tile_size,        \* self.tile_size
    max_workers,      \* self.max_workers
    batch_size,       \* self.batch_size
    pc,               \* position of the converting thread
    error,            \* exception propagating out of convert, or "none"
    size_x,           \* self.size_x (0 until get_image_metadata)
    size_y,           \* self.size_y
    output_array,     \* the canvas of extract_full_resolution_tiles
    patches,          \* list returned by create_patch_list
    patch_ids,        \* parallel list of grid ids
    batch_start,      \* loop variable i of the batch loop
    requests,         \* batches handed to request_regions so far, in order
    regions,          \* pending regions of the current batch
    batch_patch_ids,  \* pending grid ids of the current batch
    regions_ready,    \* rest of the list wait_any returned
    cur,              \* arguments of the pool.submit call in progress
    futures,          \* futures of the thread pool, in submission order
    jobs,             \* the list jobs (indices into futures)
    pool_queue,       \* value of the BoundedSemaphore
    over_released,    \* a release found the semaphore at its initial value
    output_written,   \* number of writes of the output file
    faults,           \* failures the run may still meet
    compression,      \* self.compression
    quality,          \* self.quality
    pyramid_512,      \* self.pyramid_512
    output_path,      \* self.output_path, a sequence of characters
    images,           \* types of the associated images the source holds
    scale_factor,     \* pixel size the source reports, in nanometres
    pixel_size,       \* self.pixel_size_x, self.pixel_size_y
    vips_image,       \* convert's vips_image
    macro_image,      \* convert's macro_image
    label_image,      \* convert's label_image
    philips_xml,      \* the metadata generate_xml was asked for
    save_params,      \* save_params of save_pyramidal_tiff
    files,            \* the files written, by path
    writes,           \* the writes made, in order
    log,              \* warnings and errors logged
    closes,           \* calls of pixel_engine["in"].close()
    input_dir_kind,   \* what args.input_dir names: nothing, a file, a directory
    input_dir,        \* names of the files in the input directory
    skip_existing,    \* skip_existing of batch_convert
    file_workers,     \* file_workers of batch_convert
    existing_outputs, \* the output directory before the batch
    failing,          \* input files whose conversion raises
    crash,            \* a worker process may still die
    output_dir,       \* the output directory, by file name
    tasks,            \* tasks of batch_convert
    file_futures,     \* the futures of the ProcessPoolExecutor, by task
    results,          \* results of batch_convert
    conversions,      \* input files a converter was constructed for, in order
    main_pc,          \* position of the batch command's main process
    summary,          \* successful and failed of batch_convert
    pool_broken,      \* the ProcessPoolExecutor is broken
    exit_status       \* exit status of the command, -1 while it runs

converter_vars == << dim_ranges, envelopes, tile_size, max_workers, batch_size, pc, error,
                     size_x, size_y, output_array, patches, patch_ids, batch_start,
                     requests, regions, batch_patch_ids, regions_ready, cur, futures,
                     jobs, pool_queue, over_released, output_written, faults,
                     compression, quality, pyramid_512, output_path, images, scale_factor,
                     pixel_size,
                     vips_image, macro_image, label_image, philips_xml, save_params,
                     files, writes, log, closes >>

\* the arguments of the batch command and what it finds on disk
batch_config_vars == << input_dir_kind, input_dir, skip_existing, file_workers,
                       existing_outputs, failing >>

batch_run_vars == << crash, output_dir, tasks, file_futures, results, conversions,
                    main_pc, summary, pool_broken >>

batch_vars == << batch_config_vars, batch_run_vars, exit_status >>

vars == << converter_vars, batch_vars >>

\* the writer's configuration and what the source holds besides the slide
writer_config_vars == << compression, quality, pyramid_512, output_path, images,
                        scale_factor >>

\* the locals of convert after the fetch, and the outside world
writer_vars == << vips_image, macro_image, label_image, philips_xml,
                 save_params, files, writes, log, closes >>

config_vars == << dim_ranges, envelopes, tile_size, max_workers, batch_size >>

NoArray == [shape |-> << 0, 0, 0 >>, data |-> << >>]
NoJob == [tile_x |-> -1]

\* ------------------------------------------------------------------------
\* The tile source (the vendor SDK behind request_regions, wait_any and
\* region.get): every region has the range it was requested with and holds
\* the pattern inside the data envelope and the fill colour outside.
\* ------------------------------------------------------------------------
\* sample c of image pixel (px, py): never 0 and never the fill colour
Pattern(px, py, c) == (1 + c + Channels * (px + 8 * py)) % 256

\* source coordinate (sx, sy) lies in the scanned area
in_envelope(sx, sy) ==
    /\ envelopes[1] <= sx /\ sx < envelopes[2]
    /\ envelopes[3] <= sy /\ sy < envelopes[4]

\* what the source renders at source coordinate (sx, sy), channel c
source_sample(sx, sy, c) ==
    IF in_envelope(sx, sy)
    THEN Pattern((sx - dim_ranges[1][1]) \div dim_ranges[1][2],
                 (sy - dim_ranges[2][1]) \div dim_ranges[2][2], c)
    ELSE fill_color

\* request_regions(batch_patches, envelopes, True, [fill_color] * 3):
\* one region per patch, identified by the patch's position in patches
request_regions(first, batch_patches) ==
    [k \in 1..Len(batch_patches) |->
        [id |-> first + k - 1, range |-> batch_patches[k]]]

\* region.get(pixels): the interleaved buffer of width * height * 3 samples
region_get(region, width, height, scale_x, scale_y) ==
    [k \in 1..(width * height * Channels) |->
        LET c == (k - 1) % Channels
            col == ((k - 1) \div Channels) % width
            row == ((k - 1) \div Channels) \div width
        IN  source_sample(region.range[1] + col * scale_x,
                          region.range[3] + row * scale_y, c)]

\* every non-empty list of distinct pending regions wait_any may return
RECURSIVE orderings(_)
orderings(S) ==
    IF S = {} THEN { << >> }
    ELSE UNION { { << r >> \o rest : rest \in orderings(S \ {r}) } : r \in S }

wait_any(pending) ==
    UNION { orderings(S) : S \in (SUBSET { pending[k] : k \in 1..Len(pending) }) \ { {} } }

\* ------------------------------------------------------------------------
\* TileAssembler: make_planar and process_tile.
\* ------------------------------------------------------------------------
\* the two index orders of the tile exchanged
make_planar_transposed(pixels, tile_width, tile_height, c, row, col) ==
    pixels[Channels * (col * tile_height + row) + c + 1]

\* make_planar(...)[c][row][col], 0-based: plane c is pixels[c::3] reshaped
\* to (tile_height, tile_width)
make_planar(pixels, tile_width, tile_height, c, row, col) ==
    pixels[Channels * (row * tile_width + col) + c + 1]

\* the offsets taken one pixel short of the tile size per grid step
tile_rect_stride_short(arr, tile_x, tile_y, width, height) ==
    LET y_start == tile_y * (tile_size - 1)
        x_start == tile_x * (tile_size - 1)
    IN  [ y_start |-> y_start, x_start |-> x_start,
          y_end |-> Min(y_start + height, arr.shape[1]),
          x_end |-> Min(x_start + width, arr.shape[2]) ]

\* the destination rectangle [y_start, y_end) x [x_start, x_end)
tile_rect(arr, tile_x, tile_y, width, height) ==
    LET y_start == tile_y * tile_size
        x_start == tile_x * tile_size
    IN  [ y_start |-> y_start, x_start |-> x_start,
          y_end |-> Min(y_start + height, arr.shape[1]),
          x_end |-> Min(x_start + width, arr.shape[2]) ]

\* len(tile_data[:n]) for an axis of the given length: a negative n counts
\* from the end
slice_length(n, length) ==
    IF n >= 0 THEN Min(n, length) ELSE IF length + n > 0 THEN length + n ELSE 0

\* the slice assignment raises when the shape of the source cannot be
\* broadcast to that of the destination, which can happen only when the
\* destination offset lies beyond the array: an axis of the source fits
\* when it has the length of the destination's or the length 1
process_tile_raises(arr, tile_x, tile_y, width, height) ==
    LET r == tile_rect(arr, tile_x, tile_y, width, height)
        rows == IF r.y_end > r.y_start THEN r.y_end - r.y_start ELSE 0
        columns == IF r.x_end > r.x_start THEN r.x_end - r.x_start ELSE 0
        tile_rows == slice_length(r.y_end - r.y_start, height)
        tile_columns == slice_length(r.x_end - r.x_start, width)
    IN  \/ tile_rows \notin {rows, 1}
        \/ tile_columns \notin {columns, 1}

\* output_array after process_tile placed the tile
process_tile(arr, pixels, tile_x, tile_y, width, height) ==
    LET r == tile_rect(arr, tile_x, tile_y, width, height)
    IN  [ arr EXCEPT !.data =
            [ p \in DOMAIN arr.data |->
                IF /\ r.y_start <= p[1] /\ p[1] < r.y_end
                   /\ r.x_start <= p[2] /\ p[2] < r.x_end
                THEN make_planar(pixels, width, height, p[3],
                                 p[1] - r.y_start, p[2] - r.x_start)
                ELSE arr.data[p] ] ]

\* a tile copied row by row, the exception striking after the first row
process_tile_failed_partial(arr, pixels, tile_x, tile_y, width, height) ==
    process_tile(arr, pixels, tile_x, tile_y, width, 1)

\* output_array after process_tile raised inside its try block: the slice
\* assignment is the block's last statement, so nothing was written, and
\* the except clause only logs
process_tile_failed(arr, pixels, tile_x, tile_y, width, height) == arr

\* np.zeros((resolution_y_size, resolution_x_size, 3), dtype=np.uint8)
np_zeros(h, w) ==
    [ shape |-> << h, w, Channels >>,
      data |-> [ p \in (0..(h - 1)) \X (0..(w - 1)) \X (0..(Channels - 1)) |-> 0 ] ]

\* ------------------------------------------------------------------------
\* Images, pyramid levels and the files the writer produces.
\* ------------------------------------------------------------------------
\* a pyvips image: its size, its bands, where its pixels come from and how
\* many times it was halved
NoImage == [width |-> 0, height |-> 0, bands |-> 0, source |-> "None", halvings |-> 0]

\* np.array(img_rgb) handed to pyvips.Image.new_from_memory: the decoded
\* associated image (its size plays no part in what follows)
decoded_image(image_type) ==
    [width |-> 1, height |-> 1, bands |-> Channels, source |-> image_type, halvings |-> 0]

\* the default of quality in __init__
default_quality == 80

\* the smallest side a level may have for the loops to go on
min_level_size == 256

\* generate_pyramid_levels stops after a level with a side below this
stop_level_size == 512

\* resolution is 10000.0 / pixel size: micrometres per centimetre
um_per_cm == 10000

\* tile_width and tile_height of the additional pyramid
tile_512 == 512

\* the size pyvips gives one axis of resize(0.5): libvips rounds the output
\* size to the nearest integer (halves up), older builds round it down
vips_resize_size(n, rounding) ==
    IF rounding = "nearest" THEN (n + 1) \div 2 ELSE n \div 2

\* current_image.resize(0.5, kernel='lanczos3')
vips_resize(image, rounding) ==
    [image EXCEPT !.width = vips_resize_size(image.width, rounding),
                  !.height = vips_resize_size(image.height, rounding),
                  !.halvings = image.halvings + 1]

\* the while loop of generate_pyramid_levels
RECURSIVE pyramid_loop(_, _, _)
pyramid_loop(pyramid_levels, current_image, rounding) ==
    IF current_image.width >= min_level_size /\ current_image.height >= min_level_size
    THEN LET halved == vips_resize(current_image, rounding)
             appended == Append(pyramid_levels, halved)
         IN  IF halved.width < stop_level_size \/ halved.height < stop_level_size
             THEN appended
             ELSE pyramid_loop(appended, halved, rounding)
    ELSE pyramid_levels

generate_pyramid_levels(image, rounding) ==
    pyramid_loop(<< image >>, image, rounding)

\* the while loop of save_pyramidal_tiff that lists the levels for the XML
RECURSIVE xml_pyramid_levels(_, _, _)
xml_pyramid_levels(pyramid_levels, temp_width, temp_height) ==
    IF temp_width >= min_level_size /\ temp_height >= min_level_size
    THEN xml_pyramid_levels(
             Append(pyramid_levels, [width |-> temp_width, height |-> temp_height]),
             temp_width \div 2, temp_height \div 2)
    ELSE pyramid_levels

\* str.lower() on the compression names in use
lower(name) == IF name = "JPEG" THEN "jpeg" ELSE name

\* 10000.0 / pixel size if it is positive, else 1.0; kept as a fraction
pixels_per_cm(size) == IF size > 0 THEN << um_per_cm, size >> ELSE << 1, 1 >>

\* save_params of save_pyramidal_tiff
save_params_of(tsize, size, codec, q) ==
    [tile |-> TRUE, tile_width |-> tsize, tile_height |-> tsize,
     pyramid |-> TRUE, bigtiff |-> TRUE,
     xres |-> pixels_per_cm(size[1]), yres |-> pixels_per_cm(size[2]),
     resunit |-> "cm",
     compression |-> IF lower(codec) \in {"jpeg", "lzw", "deflate"}
                     THEN lower(codec) ELSE "none",
     Q |-> IF lower(codec) = "jpeg" THEN << q >> ELSE << >>]

NoParams == [tile |-> FALSE]

\* no XML generated yet
NoXml == [wsi_info |-> [width |-> 0, height |-> 0, pixel_spacing |-> << 0, 1000 >>],
          pyramid_levels |-> << >>,
          macro_image_data |-> << >>, label_image_data |-> << >>,
          document |-> << >>]

\* a file: who wrote it, the directories tifffile was handed (tif.write
\* calls, in order) or the image and parameters pyvips was handed
NoFile == [writer |-> "none", directories |-> << >>, image |-> NoImage,
           params |-> NoParams, complete |-> FALSE]

\* str.endswith(suffix)
endswith(s, suffix) ==
    /\ Len(s) >= Len(suffix)
    /\ SubSeq(s, Len(s) - Len(suffix) + 1, Len(s)) = suffix

\* str.replace(old, new): every occurrence of old, found from the left
\* without overlap, becomes new
RECURSIVE str_replace(_, _, _)
str_replace(s, old, new) ==
    IF Len(s) < Len(old) THEN s
    ELSE IF SubSeq(s, 1, Len(old)) = old
    THEN new \o str_replace(SubSeq(s, Len(old) + 1, Len(s)), old, new)
    ELSE << Head(s) >> \o str_replace(Tail(s), old, new)

dot_tiff == << ".", "t", "i", "f", "f" >>
dot_tif == << ".", "t", "i", "f" >>
underscore_512 == << "_", "5", "1", "2" >>

\* the additional pyramid written over the main output
output_512_in_place(path) == path

\* output_512 of save_pyramidal_tiff
output_512_of(path) ==
    IF endswith(path, dot_tiff)
    THEN str_replace(path, dot_tiff, underscore_512 \o dot_tiff)
    ELSE IF endswith(path, dot_tif)
    THEN str_replace(path, dot_tif, underscore_512 \o dot_tif)
    ELSE path \o underscore_512 \o dot_tiff

\* the paths the conversion of path writes to
Paths(path) == {path, output_512_of(path)}

\* save_params_512: a copy of save_params with 512 x 512 tiles
save_params_512_of(params) ==
    [params EXCEPT !.tile_width = tile_512, !.tile_height = tile_512]

\* ------------------------------------------------------------------------
\* batch_direct_convert.py: file names, find_isyntax_files and
\* generate_output_path. A file name is a sequence of characters.
\* ------------------------------------------------------------------------
isyntax_ext == << ".", "i", "s", "y", "n", "t", "a", "x" >>
i2syntax_ext == << ".", "i", "2", "s", "y", "n", "t", "a", "x" >>

\* extensions = ['.isyntax', '.i2syntax']
default_extensions == << isyntax_ext, i2syntax_ext >>

\* the code point of a character, for the order sorted() puts paths in
ord(c) ==
    CASE c = " " -> 32 [] c = "(" -> 40 [] c = ")" -> 41 [] c = "." -> 46
      [] c = "2" -> 50 [] c = "[" -> 91 [] c = "]" -> 93 [] c = "_" -> 95
      [] c = "a" -> 97 [] c = "b" -> 98 [] c = "i" -> 105 [] c = "n" -> 110
      [] c = "s" -> 115 [] c = "t" -> 116 [] c = "x" -> 120 [] c = "y" -> 121
      [] OTHER -> 0

\* a < b for two names of one directory
RECURSIVE path_less(_, _)
path_less(a, b) ==
    IF b = << >> THEN FALSE
    ELSE IF a = << >> THEN TRUE
    ELSE IF ord(Head(a)) # ord(Head(b)) THEN ord(Head(a)) < ord(Head(b))
    ELSE path_less(Tail(a), Tail(b))

\* sorted(isyntax_files), the list holding every name once
RECURSIVE sorted(_)
sorted(names) ==
    IF names = {} THEN << >>
    ELSE LET first == CHOOSE a \in names : \A b \in names \ {a} : path_less(a, b)
         IN  << first >> \o sorted(names \ {first})

\* find_isyntax_files(input_dir): input_dir.glob("*" + ext) for each of the
\* extensions, sorted
find_isyntax_files(directory) ==
    sorted({ name \in directory :
               \E k \in 1..Len(default_extensions) :
                   endswith(name, default_extensions[k]) })

\* index of the last "." of name, 0 if there is none
RECURSIVE last_dot(_, _)
last_dot(name, k) ==
    IF k = 0 THEN 0
    ELSE IF name[k] = "." THEN k
    ELSE last_dot(name, k - 1)

\* Path.stem: the name without its last suffix
stem(name) ==
    LET k == last_dot(name, Len(name))
    IN  IF k <= 1 THEN name ELSE SubSeq(name, 1, k - 1)

problematic_chars ==
    {"(", ")", "[", "]", "{", "}", "<", ">", "|", "&", ";", "*", "?", "\"", "'", " "}

\* for char in problematic_chars: clean_stem = clean_stem.replace(char, '_')
replace_problematic(s) ==
    [k \in 1..Len(s) |-> IF s[k] \in problematic_chars THEN "_" ELSE s[k]]

\* re.sub(r'_+', '_', clean_stem)
RECURSIVE collapse_underscores(_)
collapse_underscores(s) ==
    IF Len(s) < 2 THEN s
    ELSE IF s[1] = "_" /\ s[2] = "_" THEN collapse_underscores(Tail(s))
    ELSE << Head(s) >> \o collapse_underscores(Tail(s))

\* clean_stem.strip('_')
RECURSIVE strip_underscores(_)
strip_underscores(s) ==
    IF s = << >> THEN s
    ELSE IF Head(s) = "_" THEN strip_underscores(Tail(s))
    ELSE IF s[Len(s)] = "_" THEN strip_underscores(SubSeq(s, 1, Len(s) - 1))
    ELSE s

\* generate_output_path(input_file, output_dir): the name of the output
\* file inside output_dir (suffix is "")
generate_output_path(input_file) ==
    strip_underscores(collapse_underscores(replace_problematic(stem(input_file))))
        \o dot_tiff

\* compression and compressionargs of save_multi_directory_tiff_with_xml
tif_compression(codec) == IF lower(codec) = "jpeg" THEN "jpeg" ELSE "None"

tif_compressionargs(codec, q) == IF tif_compression(codec) = "jpeg" THEN << q >> ELSE << >>

\* the tif.write call for pyramid level `level` (0 is the base)
pyramid_directory(level, pyramid_level) ==
    [image |-> pyramid_level,
     photometric |-> "rgb",
     compression |-> tif_compression(compression),
     compressionargs |-> tif_compressionargs(compression, quality),
     tile |-> << tile_size, tile_size >>,
     subfiletype |-> IF level = 0 THEN 0 ELSE 1,
     description |-> IF level = 0 THEN "Aperio base" ELSE "Aperio level",
     software |-> "Philips DP v1.0",
     resolution |-> << pixels_per_cm(pixel_size[1]), pixels_per_cm(pixel_size[2]) >>,
     resolutionunit |-> "CENTIMETER"]

pyramid_directories(pyramid_images) ==
    [k \in 1..Len(pyramid_images) |-> pyramid_directory(k - 1, pyramid_images[k])]

\* a macro directory written as a tiled one
associated_directory_tiled(image, name) ==
    [image |-> image, photometric |-> "rgb", compression |-> "jpeg",
     compressionargs |-> << quality >>, tile |-> << tile_size, tile_size >>,
     subfiletype |-> 1, description |-> name,
     software |-> "Aperio Digital Pathology", resolution |-> << >>,
     resolutionunit |-> "None"]

\* the tif.write call for the macro or the label image: no tile, no
\* resolution
associated_directory(image, name) ==
    [image |-> image, photometric |-> "rgb", compression |-> "jpeg",
     compressionargs |-> << quality >>, tile |-> << >>,
     subfiletype |-> 1, description |-> name,
     software |-> "Aperio Digital Pathology", resolution |-> << >>,
     resolutionunit |-> "None"]

\* the label written before the macro
associated_directories_label_first(macro, label) ==
    (IF label # NoImage THEN << associated_directory(label, "label\r") >> ELSE << >>)
    \o (IF macro # NoImage THEN << associated_directory(macro, "macro\r") >> ELSE << >>)

\* if macro_image is not None: ... if label_image is not None: ...
associated_directories(macro, label) ==
    (IF macro # NoImage THEN << associated_directory(macro, "macro\r") >> ELSE << >>)
    \o (IF label # NoImage THEN << associated_directory(label, "label\r") >> ELSE << >>)

\* everything the with block writes when nothing fails
all_directories(pyramid_images, macro, label) ==
    pyramid_directories(pyramid_images) \o associated_directories(macro, label)

\* ------------------------------------------------------------------------
\* Initial state: the converter constructed, the source opened.
\* ------------------------------------------------------------------------
\* the dimension ranges of a w x h image reported as sample g describes
dim_ranges_of(g, w, h) ==
    << << g.origin[1], g.step[1], g.origin[1] + w * g.step[1] + g.rem[1] >>,
       << g.origin[2], g.step[2], g.origin[2] + h * g.step[2] + g.rem[2] >> >>

\* the data envelope of that image: [x_start, x_end, y_start, y_end) in
\* source coordinates
envelopes_of(g, w, h) ==
    << g.origin[1], g.origin[1] + (w - g.cut) * g.step[1],
       g.origin[2], g.origin[2] + h * g.step[2] >>

SourceInputs(maxsize) ==
    { << dim_ranges_of(g, w, h), envelopes_of(g, w, h) >> :
        g \in SourceSamples, w \in 1..maxsize, h \in 1..maxsize }

\* the configuration passes both validations of the conversion
valid_config(ranges) ==
    /\ ~get_size_raises(ranges[1])
    /\ ~get_size_raises(ranges[2])
    /\ ~create_patch_list_raises(ranges)

patch_count(ranges, ts) == tiles_of(ranges, ts)[1] * tiles_of(ranges, ts)[2]

\* the converter after construction, convert not yet called
Constructed ==
    /\ pc = "convert"
    /\ error = "none"
    /\ size_x = 0
    /\ size_y = 0
    /\ output_array = NoArray
    /\ patches = << >>
    /\ patch_ids = << >>
    /\ batch_start = 0
    /\ requests = << >>
    /\ regions = << >>
    /\ batch_patch_ids = << >>
    /\ regions_ready = << >>
    /\ cur = NoJob
    /\ futures = << >>
    /\ jobs = << >>
    /\ pool_queue = 0
    /\ over_released = FALSE
    /\ output_written = 0
    /\ pixel_size = << 0, 0 >>

\* the state after construction, for images up to maxsize pixels a side and
\* tile sizes up to maxtile
InitOf(maxsize, maxtile) ==
    /\ \E input \in SourceInputs(maxsize) :
          /\ dim_ranges = input[1]
          /\ envelopes = input[2]
    /\ tile_size \in 1..maxtile
    /\ max_workers \in 1..MaxWorkers
    /\ batch_size \in 1..MaxBatch
    /\ Constructed

\* the writer's side of the state after construction: the configuration,
\* what the source holds, the failures to come; nothing written yet
InitWriter(kinds, codecs, qualities, flags, paths, image_sets, scales) ==
    /\ faults = kinds
    /\ compression \in codecs
    /\ quality \in qualities
    /\ pyramid_512 \in flags
    /\ output_path \in paths
    /\ images \in image_sets
    /\ scale_factor \in scales
    /\ vips_image = NoImage
    /\ macro_image = NoImage
    /\ label_image = NoImage
    /\ philips_xml = NoXml
    /\ save_params = NoParams
    /\ files = [path \in Paths(output_path) |-> NoFile]
    /\ writes = << >>
    /\ log = {}
    /\ closes = 0

\* no batch: the single-file command
NoBatch ==
    /\ input_dir_kind = "dir"
    /\ input_dir = {}
    /\ skip_existing = TRUE
    /\ file_workers = 1
    /\ existing_outputs = << >>
    /\ failing = {}
    /\ crash = FALSE
    /\ output_dir = << >>
    /\ tasks = << >>
    /\ file_futures = << >>
    /\ results = << >>
    /\ conversions = << >>
    /\ main_pc = "none"
    /\ summary = [successful |-> 0, failed |-> 0]
    /\ pool_broken = FALSE
    /\ exit_status = -1

Init ==
    /\ InitOf(MaxSize, MaxTile)
    /\ NoBatch
    /\ InitWriter(FaultKinds, {"jpeg"}, {default_quality}, {FALSE}, {slide_tiff},
                  {AllImages},
                  {<< 1, 1 >>})
    /\ valid_config(dim_ranges) => patch_count(dim_ranges, tile_size) <= MaxPatches

\* ------------------------------------------------------------------------
\* The converting thread: convert and extract_full_resolution_tiles.
\* ------------------------------------------------------------------------
\* convert: metadata = self.get_image_metadata()
get_image_metadata ==
    /\ pc = "convert"
    /\ IF get_size_raises(dim_ranges[1]) \/ get_size_raises(dim_ranges[2])
       THEN /\ error' = "ValueError"
            /\ pc' = "raised"
            /\ UNCHANGED << size_x, size_y, pixel_size >>
       ELSE /\ size_x' = get_size(dim_ranges[1])
            /\ size_y' = get_size(dim_ranges[2])
            /\ pixel_size' = scale_factor
            /\ pc' = "extract"
            /\ UNCHANGED error
    /\ UNCHANGED << config_vars, batch_vars, writer_config_vars, writer_vars, output_array, patches, patch_ids, batch_start,
                    requests, regions, batch_patch_ids, regions_ready, cur,
                    futures, jobs, pool_queue, over_released, output_written,
                    faults >>

\* extract_full_resolution_tiles up to the creation of the pool: the sizes,
\* the tile counts, the zeroed array, the patch list, MaxQueuePool.__init__
extract_begin ==
    /\ pc = "extract"
    /\ LET resolution_x_size == get_size(dim_ranges[1])
           resolution_y_size == get_size(dim_ranges[2])
           tiles == tiles_of(dim_ranges, tile_size)
           planned == create_patch_list(dim_ranges, tiles, << tile_size, tile_size >>)
       IN  /\ output_array' = np_zeros(resolution_y_size, resolution_x_size)
           /\ IF create_patch_list_raises(dim_ranges)
              THEN /\ error' = "ValueError"
                   /\ pc' = "raised"
                   /\ UNCHANGED << patches, patch_ids, pool_queue >>
              ELSE /\ patches' = planned.patches
                   /\ patch_ids' = planned.patch_ids
                   /\ pool_queue' = max_workers
                   /\ pc' = "batch"
                   /\ UNCHANGED error
    /\ UNCHANGED << config_vars, batch_vars, writer_config_vars, writer_vars, pixel_size, size_x, size_y, batch_start, requests, regions,
                    batch_patch_ids, regions_ready, cur, futures, jobs,
                    over_released, output_written, faults >>

\* every batch taken from the start of the list
list_slice_from_start(seq, i, j) == SubSeq(seq, 1, Min(j - i, Len(seq)))

\* seq[i:j] for 0 <= i <= j: the end is clipped to the length of the list
list_slice(seq, i, j) == SubSeq(seq, i + 1, Min(j, Len(seq)))

\* for i in range(0, len(patches), self.batch_size): slice the batch and
\* issue one request_regions call, or leave the with block
batch_loop ==
    /\ pc = "batch"
    /\ IF batch_start < Len(patches)
       THEN LET batch_patches == list_slice(patches, batch_start, batch_start + batch_size)
            IN  /\ regions' = request_regions(batch_start + 1, batch_patches)
                /\ batch_patch_ids' =
                       list_slice(patch_ids, batch_start, batch_start + batch_size)
                /\ requests' = Append(requests, batch_patches)
                /\ pc' = "while"
       ELSE /\ pc' = "pool_exit"
            /\ UNCHANGED << regions, batch_patch_ids, requests >>
    /\ UNCHANGED << config_vars, batch_vars, writer_config_vars, writer_vars, pixel_size, error, size_x, size_y, output_array, patches,
                    patch_ids, batch_start, regions_ready, cur, futures, jobs,
                    pool_queue, over_released, output_written, faults >>

\* while regions: regions_ready = self.wait_any(regions); an empty list
\* ends the batch
while_regions ==
    /\ pc = "while"
    /\ IF regions = << >>
       THEN /\ batch_start' = batch_start + batch_size
            /\ pc' = "batch"
            /\ UNCHANGED regions_ready
       ELSE /\ regions_ready' \in wait_any(regions)
            /\ pc' = "for"
            /\ UNCHANGED batch_start
    /\ UNCHANGED << config_vars, batch_vars, writer_config_vars, writer_vars, pixel_size, error, size_x, size_y, output_array, patches,
                    patch_ids, requests, regions, batch_patch_ids, cur, futures,
                    jobs, pool_queue, over_released, output_written, faults >>

\* index of the first element of seq equal to v (list.index), 0 if absent
RECURSIVE index_from(_, _, _)
index_from(seq, v, k) ==
    IF k > Len(seq) THEN 0
    ELSE IF seq[k] = v THEN k
    ELSE index_from(seq, v, k + 1)

\* the last position of the list, whatever the element
list_index_of_last(seq, v) == Len(seq)

list_index(seq, v) == index_from(seq, v, 1)

\* list.remove(v): seq without its first element equal to v
list_remove(seq, v) ==
    LET k == list_index(seq, v)
    IN  IF k = 0 THEN seq
        ELSE SubSeq(seq, 1, k - 1) \o SubSeq(seq, k + 1, Len(seq))

\* the batch-local index applied to the whole patch_ids list
patch_id_of_unbatched(region) == patch_ids[list_index(regions, region)]

\* the grid id looked up for a ready region:
\* patch_idx = regions.index(region); patch_id = batch_patch_ids[patch_idx]
patch_id_of(region) == batch_patch_ids[list_index(regions, region)]

\* the realized tile dimensions of a region's range:
\* width = int(1 + (x_end - x_start) / scale_x), height likewise
region_size(view_range, scale_x, scale_y) ==
    << 1 + (view_range[2] - view_range[1]) \div scale_x,
       1 + (view_range[4] - view_range[3]) \div scale_y >>

\* body of the for loop up to the pool.submit call: the realized size, the
\* pixel buffer filled by region.get, the grid id
for_region ==
    /\ pc = "for"
    /\ LET region == Head(regions_ready)
           scale_x == dim_ranges[1][2]
           scale_y == dim_ranges[2][2]
           width == region_size(region.range, scale_x, scale_y)[1]
           height == region_size(region.range, scale_x, scale_y)[2]
           patch_id == patch_id_of(region)
       IN  \/ /\ cur' = [ pixels |-> region_get(region, width, height, scale_x, scale_y),
                          tile_x |-> patch_id[1], tile_y |-> patch_id[2],
                          width |-> width, height |-> height,
                          region |-> region, patch_id |-> patch_id ]
              /\ pc' = "acquire"
              /\ UNCHANGED << error, faults >>
           \/ \* region.get raises: the exception leaves the with block
              /\ "source" \in faults
              /\ faults' = faults \ {"source"}
              /\ error' = "SourceError"
              /\ pc' = "pool_exit"
              /\ UNCHANGED cur
    /\ UNCHANGED << config_vars, batch_vars, writer_config_vars, writer_vars, pixel_size, size_x, size_y, output_array, patches, patch_ids,
                    batch_start, requests, regions, batch_patch_ids,
                    regions_ready, futures, jobs, pool_queue, over_released,
                    output_written >>

\* ------------------------------------------------------------------------
\* MaxQueuePool.submit, called from the for loop, in its three steps.
\* ------------------------------------------------------------------------
\* BoundedSemaphore.release() left out of the callback
semaphore_release_dropped == UNCHANGED << pool_queue, over_released >>

\* BoundedSemaphore.release(): ValueError when the value is at its initial
\* value already (the callback machinery logs and drops the exception)
semaphore_release ==
    IF pool_queue < max_workers
    THEN /\ pool_queue' = pool_queue + 1
         /\ UNCHANGED over_released
    ELSE /\ over_released' = TRUE
         /\ UNCHANGED pool_queue

\* pool.submit called without waiting for the semaphore
submit_acquire_nonblocking ==
    /\ pc = "acquire"
    /\ pc' = "pool_submit"
    /\ UNCHANGED << config_vars, batch_vars, writer_config_vars, writer_vars, pixel_size, error, size_x, size_y, output_array, patches,
                    patch_ids, batch_start, requests, regions, batch_patch_ids,
                    regions_ready, cur, futures, jobs, pool_queue, over_released,
                    output_written, faults >>

\* self.pool_queue.acquire(): blocks while the value is 0
submit_acquire ==
    /\ pc = "acquire"
    /\ pool_queue > 0
    /\ pool_queue' = pool_queue - 1
    /\ pc' = "pool_submit"
    /\ UNCHANGED << config_vars, batch_vars, writer_config_vars, writer_vars, pixel_size, error, size_x, size_y, output_array, patches,
                    patch_ids, batch_start, requests, regions, batch_patch_ids,
                    regions_ready, cur, futures, jobs, over_released,
                    output_written, faults >>

\* future = self.pool.submit(function, *args): the work item is queued
submit_pool ==
    /\ pc = "pool_submit"
    /\ futures' = Append(futures,
                         [ pixels |-> cur.pixels, tile_x |-> cur.tile_x,
                           tile_y |-> cur.tile_y, width |-> cur.width,
                           height |-> cur.height, state |-> "queued",
                           callback |-> FALSE, result |-> "pending" ])
    /\ pc' = "add_done_callback"
    /\ UNCHANGED << config_vars, batch_vars, writer_config_vars, writer_vars, pixel_size, error, size_x, size_y, output_array, patches,
                    patch_ids, batch_start, requests, regions, batch_patch_ids,
                    regions_ready, cur, jobs, pool_queue, over_released,
                    output_written, faults >>

\* future.add_done_callback(self.pool_queue_callback): registered when the
\* future is not finished yet, called at once when it is; then the rest of
\* the loop body: jobs.append, regions.remove, batch_patch_ids.remove
submit_add_done_callback ==
    /\ pc = "add_done_callback"
    /\ LET f == Len(futures)
       IN  IF futures[f].state \in {"queued", "running"}
           THEN /\ futures' = [futures EXCEPT ![f].callback = TRUE]
                /\ UNCHANGED << pool_queue, over_released >>
           ELSE /\ semaphore_release
                /\ UNCHANGED futures
    /\ jobs' = Append(jobs, Len(futures))
    /\ regions' = list_remove(regions, cur.region)
    /\ batch_patch_ids' = list_remove(batch_patch_ids, cur.patch_id)
    /\ regions_ready' = Tail(regions_ready)
    /\ cur' = NoJob
    /\ pc' = IF Tail(regions_ready) = << >> THEN "while" ELSE "for"
    /\ UNCHANGED << config_vars, batch_vars, writer_config_vars, writer_vars, pixel_size, error, size_x, size_y, output_array, patches,
                    patch_ids, batch_start, requests, output_written, faults >>

\* ------------------------------------------------------------------------
\* The worker threads of the ThreadPoolExecutor.
\* ------------------------------------------------------------------------
\* a worker thread holds a work item from its start until its callbacks ran
busy_workers ==
    Cardinality({ k \in 1..Len(futures) : futures[k].state \in {"running", "finished"} })

\* an idle worker takes the oldest queued work item
worker_start(k) ==
    /\ futures[k].state = "queued"
    /\ \A j \in 1..(k - 1) : futures[j].state # "queued"
    /\ busy_workers < max_workers
    /\ futures' = [futures EXCEPT ![k].state = "running"]
    /\ UNCHANGED << config_vars, batch_vars, writer_config_vars, writer_vars, pixel_size, pc, error, size_x, size_y, output_array,
                    patches, patch_ids, batch_start, requests, regions,
                    batch_patch_ids, regions_ready, cur, jobs, pool_queue,
                    over_released, output_written, faults >>

\* the worker runs process_tile: the tile is placed, or the exception is
\* caught and logged and the array is left as it was; the future is then
\* finished
worker_process_tile(k) ==
    /\ futures[k].state = "running"
    /\ LET f == futures[k]
       IN  \/ /\ ~process_tile_raises(output_array, f.tile_x, f.tile_y, f.width, f.height)
              /\ output_array' = process_tile(output_array, f.pixels, f.tile_x,
                                              f.tile_y, f.width, f.height)
              /\ futures' = [futures EXCEPT ![k].state = "finished", ![k].result = "ok"]
              /\ UNCHANGED faults
           \/ /\ process_tile_raises(output_array, f.tile_x, f.tile_y, f.width, f.height)
              /\ output_array' = process_tile_failed(output_array, f.pixels, f.tile_x,
                                                     f.tile_y, f.width, f.height)
              /\ futures' = [futures EXCEPT ![k].state = "finished", ![k].result = "failed"]
              /\ UNCHANGED faults
           \/ \* an exception raised inside the try block
              /\ "assembly" \in faults
              /\ faults' = faults \ {"assembly"}
              /\ output_array' = process_tile_failed(output_array, f.pixels, f.tile_x,
                                                     f.tile_y, f.width, f.height)
              /\ futures' = [futures EXCEPT ![k].state = "finished", ![k].result = "failed"]
    /\ UNCHANGED << config_vars, batch_vars, writer_config_vars, writer_vars, pixel_size, pc, error, size_x, size_y, patches, patch_ids,
                    batch_start, requests, regions, batch_patch_ids,
                    regions_ready, cur, jobs, pool_queue, over_released,
                    output_written >>

\* the worker invokes the callbacks registered on the finished future
\* (pool_queue_callback releases the semaphore) and becomes idle
worker_invoke_callbacks(k) ==
    /\ futures[k].state = "finished"
    /\ futures' = [futures EXCEPT ![k].state = "done"]
    /\ IF futures[k].callback
       THEN semaphore_release
       ELSE UNCHANGED << pool_queue, over_released >>
    /\ UNCHANGED << config_vars, batch_vars, writer_config_vars, writer_vars, pixel_size, pc, error, size_x, size_y, output_array,
                    patches, patch_ids, batch_start, requests, regions,
                    batch_patch_ids, regions_ready, cur, jobs, output_written,
                    faults >>

\* ------------------------------------------------------------------------
\* Leaving the with block, the barrier, and the rest of convert.
\* ------------------------------------------------------------------------
\* shutdown(wait=False): the with block is left at once
shutdown_no_wait == TRUE

\* ThreadPoolExecutor.__exit__ is shutdown(wait=True): every worker thread
\* is joined, so every work item has run to its end
shutdown_complete ==
    \A k \in 1..Len(futures) : futures[k].state = "done"

\* MaxQueuePool.__exit__; an exception raised inside the block propagates
\* after it
pool_exit ==
    /\ pc = "pool_exit"
    /\ shutdown_complete
    /\ pc' = IF error # "none" THEN "raised" ELSE "wait_jobs"
    /\ UNCHANGED << config_vars, batch_vars, writer_config_vars, writer_vars, pixel_size, error, size_x, size_y, output_array, patches,
                    patch_ids, batch_start, requests, regions, batch_patch_ids,
                    regions_ready, cur, futures, jobs, pool_queue,
                    over_released, output_written, faults >>

\* wait(jobs, return_when=ALL_COMPLETED); return output_array
wait_jobs ==
    /\ pc = "wait_jobs"
    /\ \A n \in 1..Len(jobs) : futures[jobs[n]].state \in {"finished", "done"}
    /\ pc' = "extracted"
    /\ UNCHANGED << config_vars, batch_vars, writer_config_vars, writer_vars, pixel_size, error, size_x, size_y, output_array, patches,
                    patch_ids, batch_start, requests, regions, batch_patch_ids,
                    regions_ready, cur, futures, jobs, pool_queue,
                    over_released, output_written, faults >>

\* ------------------------------------------------------------------------
\* The rest of convert: the image, the associated images, the files.
\* ------------------------------------------------------------------------
fetch_vars == << size_x, size_y, output_array, patches, patch_ids, batch_start,
                 requests, regions, batch_patch_ids, regions_ready, cur,
                 futures, jobs, pool_queue, over_released >>

\* vips_image = self.create_vips_image(image_array)
create_vips_image ==
    /\ pc = "extracted"
    /\ vips_image' = [width |-> output_array.shape[2],
                      height |-> output_array.shape[1],
                      bands |-> output_array.shape[3],
                      source |-> "WSI", halvings |-> 0]
    /\ pc' = "macro_image"
    /\ UNCHANGED << config_vars, batch_vars, writer_config_vars, fetch_vars, pixel_size,
                    error, output_written, faults, macro_image, label_image,
                    philips_xml, save_params, files, writes, log, closes >>

\* a failed extraction hands on the image it was decoding
image_after_failure_kept(image_type) == decoded_image(image_type)

\* except Exception: log.warning(...); return None
image_after_failure(image_type) == NoImage

\* extract_macro_image and extract_label_image: the image, or None when
\* the source has none or when finding, reading or decoding it raises
extract_image_outcomes(image_type, fault) ==
    IF image_type \notin images
    THEN { [image |-> NoImage, logged |-> {}, met |-> {}] }
    ELSE { [image |-> decoded_image(image_type), logged |-> {}, met |-> {}] }
         \cup { [image |-> image_after_failure(image_type),
                 logged |-> {"warning: Failed to extract " \o fault \o " image"},
                 met |-> {fault}] : f \in faults \cap {fault} }

\* macro_image = self.extract_macro_image()
extract_macro_image ==
    /\ pc = "macro_image"
    /\ \E outcome \in extract_image_outcomes("MACROIMAGE", "macro") :
          /\ macro_image' = outcome.image
          /\ log' = log \cup outcome.logged
          /\ faults' = faults \ outcome.met
    /\ pc' = "label_image"
    /\ UNCHANGED << config_vars, batch_vars, writer_config_vars, fetch_vars, pixel_size,
                    error, output_written, vips_image, label_image,
                    philips_xml, save_params, files, writes, closes >>

\* label_image = self.extract_label_image()
extract_label_image ==
    /\ pc = "label_image"
    /\ \E outcome \in extract_image_outcomes("LABELIMAGE", "label") :
          /\ label_image' = outcome.image
          /\ log' = log \cup outcome.logged
          /\ faults' = faults \ outcome.met
    /\ pc' = "save"
    /\ UNCHANGED << config_vars, batch_vars, writer_config_vars, fetch_vars, pixel_size,
                    error, output_written, vips_image, macro_image,
                    philips_xml, save_params, files, writes, closes >>

\* vips_image_to_base64_jpeg: the data of the image, None for no image
base64_jpeg(image) == IF image = NoImage THEN << >> ELSE << image.source >>

\* ------------------------------------------------------------------------
\* PhilipsXMLGenerator: the document as the list of its lines (xml_parts).
\* A line is an element that opens, an element that closes, or an
\* attribute with its name and value; a number that is divided by 1000.0
\* is kept as a fraction.
\* ------------------------------------------------------------------------
attribute(name, value) == << "Attribute", name, value >>
data_object(object_type) == << "DataObject", object_type >>
end_data_object == << "/DataObject" >>

\* _generate_dicom_header; the timestamps are those of the call
generate_dicom_header ==
    << attribute("DICOM_ACQUISITION_DATETIME", "now"),
       attribute("DICOM_DATE_OF_LAST_CALIBRATION", "now"),
       attribute("DICOM_DEVICE_SERIAL_NUMBER", "FMT0411"),
       attribute("DICOM_MANUFACTURER", "PHILIPS"),
       attribute("DICOM_SOFTWARE_VERSIONS", << "1.8.6824", "20180906_R51", "4.0.3" >>),
       attribute("DICOM_TIME_OF_LAST_CALIBRATION", "now"),
       attribute("PIIM_DP_SCANNER_CALIBRATION_STATUS", "OK"),
       attribute("PIIM_DP_SCANNER_RACK_NUMBER", 11),
       attribute("PIIM_DP_SCANNER_SLOT_NUMBER", 10) >>

\* every level given the spacing of the first
level_pixel_spacing_flat(pixel_spacing, i) == pixel_spacing

\* level_pixel_spacing = pixel_spacing * (2 ** i)
level_pixel_spacing(pixel_spacing, i) ==
    << pixel_spacing[1] * (2 ^ i), pixel_spacing[2] >>

\* the body of the loop over enumerate(pyramid_levels), from level i on
RECURSIVE pixel_data_representations(_, _, _)
pixel_data_representations(pixel_spacing, pyramid_levels, i) ==
    IF i >= Len(pyramid_levels) THEN << >>
    ELSE << data_object("PixelDataRepresentation"),
            attribute("DICOM_PIXEL_SPACING", level_pixel_spacing(pixel_spacing, i)),
            attribute("PIIM_DP_PIXEL_DATA_REPRESENTATION_POSITION", << 0, 0, 0 >>),
            attribute("PIIM_PIXEL_DATA_REPRESENTATION_COLUMNS", pyramid_levels[i + 1].width),
            attribute("PIIM_PIXEL_DATA_REPRESENTATION_NUMBER", i),
            attribute("PIIM_PIXEL_DATA_REPRESENTATION_ROWS", pyramid_levels[i + 1].height),
            end_data_object >>
         \o pixel_data_representations(pixel_spacing, pyramid_levels, i + 1)

\* _generate_wsi_image
generate_wsi_image(wsi_info, pyramid_levels) ==
    << data_object("DPScannedImage"),
       attribute("DICOM_DERIVATION_DESCRIPTION", Len(pyramid_levels)),
       attribute("DICOM_LOSSY_IMAGE_COMPRESSION_METHOD",
                 << "PHILIPS_DP_1_0", "PHILIPS_TIFF_1_0" >>),
       attribute("DICOM_LOSSY_IMAGE_COMPRESSION_RATIO", << 3, 3 >>),
       attribute("PIM_DP_IMAGE_TYPE", "WSI"),
       attribute("UFS_IMAGE_PIXEL_TRANSFORMATION_METHOD", 0),
       attribute("DICOM_BITS_ALLOCATED", 8),
       attribute("DICOM_BITS_STORED", 8),
       attribute("DICOM_HIGH_BIT", 7),
       attribute("DICOM_LOSSY_IMAGE_COMPRESSION", "01"),
       attribute("DICOM_PHOTOMETRIC_INTERPRETATION", "RGB"),
       attribute("DICOM_PIXEL_REPRESENTATION", 0),
       attribute("DICOM_PIXEL_SPACING", wsi_info.pixel_spacing),
       attribute("DICOM_PLANAR_CONFIGURATION", 0),
       attribute("DICOM_SAMPLES_PER_PIXEL", 3),
       << "Attribute", "PIIM_PIXEL_DATA_REPRESENTATION_SEQUENCE" >>,
       << "Array" >> >>
    \o pixel_data_representations(wsi_info.pixel_spacing, pyramid_levels, 0)
    \o << << "/Array" >>,
          << "/Attribute" >>,
          attribute("PIM_DP_IMAGE_COLUMNS", wsi_info.width),
          attribute("PIM_DP_IMAGE_ROWS", wsi_info.height),
          attribute("PIM_DP_SOURCE_FILE", "%FILENAME%"),
          end_data_object >>

\* _generate_associated_image
generate_associated_image(image_type, image_data) ==
    << data_object("DPScannedImage"),
       attribute("PIM_DP_IMAGE_DATA", image_data),
       attribute("PIM_DP_IMAGE_TYPE", image_type),
       end_data_object >>

\* _generate_footer_attributes
generate_footer_attributes ==
    << attribute("PIM_DP_UFS_BARCODE", "Generated"),
       attribute("PIM_DP_UFS_INTERFACE_VERSION", "1.8.6824") >>

\* generate_xml: None and the empty string are both left out
generate_xml(wsi_info, pyramid_levels, macro_image_data, label_image_data) ==
    << data_object("DPUfsImport") >>
    \o generate_dicom_header
    \o << << "Attribute", "PIM_DP_SCANNED_IMAGES" >>, << "Array" >> >>
    \o generate_wsi_image(wsi_info, pyramid_levels)
    \o (IF macro_image_data # << >>
        THEN generate_associated_image("MACROIMAGE", macro_image_data)
        ELSE << >>)
    \o (IF label_image_data # << >>
        THEN generate_associated_image("LABELIMAGE", label_image_data)
        ELSE << >>)
    \o << << "/Array" >>, << "/Attribute" >> >>
    \o generate_footer_attributes
    \o << end_data_object >>

\* save_pyramidal_tiff up to its call of save_multi_directory_tiff_with_xml:
\* the level list and the XML, the save parameters
save_pyramidal_tiff ==
    /\ pc = "save"
    /\ LET pyramid_levels == xml_pyramid_levels(<< >>, size_x, size_y)
           macro_base64 == base64_jpeg(macro_image)
           label_base64 == base64_jpeg(label_image)
           wsi_info == [width |-> size_x, height |-> size_y,
                        pixel_spacing |-> << pixel_size[1], 1000 >>]
       IN  philips_xml' =
               [wsi_info |-> wsi_info,
                pyramid_levels |-> pyramid_levels,
                macro_image_data |-> macro_base64,
                label_image_data |-> label_base64,
                document |-> generate_xml(wsi_info, pyramid_levels,
                                          macro_base64, label_base64)]
    /\ save_params' = save_params_of(tile_size, pixel_size, compression, quality)
    /\ pc' = "save_multi"
    /\ UNCHANGED << config_vars, batch_vars, writer_config_vars, fetch_vars, pixel_size,
                    error, output_written, faults, vips_image, macro_image,
                    label_image, files, writes, log, closes >>

\* the outcomes of the try block: everything written, or the directories
\* written before the step that raised (pyramid generation, the write of a
\* level, the write of the macro image, the write of the label image)
primary_outcomes(pyramid_images) ==
    LET all == all_directories(pyramid_images, macro_image, label_image)
        n == Len(pyramid_images)
    IN  { [fault |-> "none", directories |-> all] }
        \cup { [fault |-> "generate", directories |-> << >>] :
                 f \in faults \cap {"generate"} }
        \cup { [fault |-> "level", directories |-> SubSeq(all, 1, k - 1)] :
                 k \in IF "level" \in faults THEN 1..n ELSE {} }
        \cup { [fault |-> "macro_write", directories |-> SubSeq(all, 1, n)] :
                 f \in IF macro_image # NoImage THEN faults \cap {"macro_write"} ELSE {} }
        \cup { [fault |-> "label_write", directories |-> SubSeq(all, 1, Len(all) - 1)] :
                 f \in IF label_image # NoImage THEN faults \cap {"label_write"} ELSE {} }

\* the file tifffile.TiffWriter leaves at the path
tifffile_file(directories, complete) ==
    [writer |-> "tifffile", directories |-> directories, image |-> NoImage,
     params |-> NoParams, complete |-> complete]

\* the file vips_image.tiffsave(path, **params) leaves at the path
tiffsave(image, params, complete) ==
    [writer |-> "pyvips", directories |-> << >>, image |-> image,
     params |-> params, complete |-> complete]

\* no fallback: the except branch only logs
fallback_writes_none(path, raised) == << >>

\* the except branch: vips_image.tiffsave(self.output_path, **save_params)
fallback_writes(path, raised) ==
    << [path |-> path, writer |-> "pyvips", raised |-> raised] >>

\* save_multi_directory_tiff_with_xml: the try block and, when it raised,
\* the fallback save, which may raise in its turn
save_multi_directory_tiff_with_xml ==
    /\ pc = "save_multi"
    /\ \E rounding \in {"nearest", "down"} :
       \E outcome \in primary_outcomes(generate_pyramid_levels(vips_image, rounding)) :
          LET primary == << [path |-> output_path, writer |-> "tifffile",
                              raised |-> outcome.fault # "none"] >>
              fallback == fallback_writes(output_path, FALSE)
              fallback_raised == fallback_writes(output_path, TRUE)
              failed == {"error: Failed to create multi-directory TIFF with tifffile"}
          IN  IF outcome.fault = "none"
              THEN /\ files' = [files EXCEPT ![output_path] =
                                   tifffile_file(outcome.directories, TRUE)]
                   /\ writes' = writes \o primary
                   /\ output_written' = output_written + 1
                   /\ pc' = "pyramid_512"
                   /\ UNCHANGED << error, faults, log >>
              ELSE \/ /\ files' = [files EXCEPT ![output_path] =
                                      IF fallback = << >>
                                      THEN tifffile_file(outcome.directories, FALSE)
                                      ELSE tiffsave(vips_image, save_params, TRUE)]
                      /\ writes' = writes \o primary \o fallback
                      /\ output_written' = output_written + 1 + Len(fallback)
                      /\ faults' = faults \ {outcome.fault}
                      /\ log' = log \cup failed \cup
                                {"warning: Metadata may not be properly set in fallback mode"}
                      /\ pc' = "pyramid_512"
                      /\ UNCHANGED error
                   \/ /\ "fallback" \in faults
                      /\ files' = [files EXCEPT ![output_path] =
                                      tiffsave(vips_image, save_params, FALSE)]
                      /\ writes' = writes \o primary \o fallback_raised
                      /\ output_written' = output_written + 1 + Len(fallback_raised)
                      /\ faults' = faults \ {outcome.fault, "fallback"}
                      /\ log' = log \cup failed
                      /\ error' = "pyvips.Error"
                      /\ pc' = "raised"
    /\ UNCHANGED << config_vars, batch_vars, writer_config_vars, fetch_vars, pixel_size,
                    vips_image, macro_image, label_image, philips_xml,
                    save_params, closes >>

\* the end of save_pyramidal_tiff: the additional 512 x 512 pyramid, if
\* requested; convert returns
save_pyramid_512 ==
    /\ pc = "pyramid_512"
    /\ IF pyramid_512
       THEN LET output_512 == output_512_of(output_path)
                save_params_512 == save_params_512_of(save_params)
            IN  \/ /\ files' = [files EXCEPT ![output_512] =
                                    tiffsave(vips_image, save_params_512, TRUE)]
                   /\ writes' = Append(writes, [path |-> output_512,
                                                writer |-> "pyvips", raised |-> FALSE])
                   /\ pc' = "done"
                   /\ UNCHANGED << error, faults >>
                \/ \* tiffsave raises, for one when the directory replace
                   \* made of the directory's name does not exist
                   /\ "save_512" \in faults
                   /\ faults' = faults \ {"save_512"}
                   /\ files' = [files EXCEPT ![output_512] =
                                    tiffsave(vips_image, save_params_512, FALSE)]
                   /\ writes' = Append(writes, [path |-> output_512,
                                                writer |-> "pyvips", raised |-> TRUE])
                   /\ error' = "pyvips.Error"
                   /\ pc' = "raised"
       ELSE /\ pc' = "done"
            /\ UNCHANGED << files, writes, error, faults >>
    /\ UNCHANGED << config_vars, batch_vars, writer_config_vars, fetch_vars, pixel_size,
                    output_written, vips_image, macro_image, label_image,
                    philips_xml, save_params, log, closes >>

\* __exit__ is skipped when convert raised
exit_closes_on_return(raised) == raised = "none"

\* the with statement of main calls __exit__ however the block is left
exit_closes(raised) == TRUE

\* main: the with block is left, __exit__ closes the source; an exception
\* goes on to the caller
\* the exit status of the interpreter: 0 when main returns, 1 when an
\* exception leaves it
exit_status_of(raised) == IF raised = "none" THEN 0 ELSE 1

converter_exit ==
    /\ pc \in {"done", "raised"}
    /\ closes' = IF exit_closes(error) THEN closes + 1 ELSE closes
    /\ exit_status' = exit_status_of(error)
    /\ pc' = "closed"
    /\ UNCHANGED << config_vars, batch_config_vars, batch_run_vars, writer_config_vars, fetch_vars, pixel_size,
                    error, output_written, faults, vips_image, macro_image,
                    label_image, philips_xml, save_params, files, writes, log >>

\* the converting thread after the fetch
Writer ==
    \/ create_vips_image
    \/ extract_macro_image
    \/ extract_label_image
    \/ save_pyramidal_tiff
    \/ save_multi_directory_tiff_with_xml
    \/ save_pyramid_512
    \/ converter_exit

\* ------------------------------------------------------------------------
\* The specification.
\* ------------------------------------------------------------------------
Driver ==
    \/ get_image_metadata
    \/ extract_begin
    \/ batch_loop
    \/ while_regions
    \/ for_region
    \/ submit_acquire
    \/ submit_pool
    \/ submit_add_done_callback
    \/ pool_exit
    \/ wait_jobs
    \/ Writer

Workers ==
    \E k \in 1..Len(futures) :
        \/ worker_start(k)
        \/ worker_process_tile(k)
        \/ worker_invoke_callbacks(k)

Next == Driver \/ Workers

Spec == Init /\ [][Next]_vars

\* the converting thread and the worker threads are scheduled fairly, and
\* wait_any returns whenever regions are pending
FairSpec == Spec /\ WF_vars(Driver) /\ WF_vars(Workers)

\* the planning stage alone (get_image_metadata, then the start of
\* extract_full_resolution_tiles), over larger images and tile sizes
InitPlan ==
    /\ InitOf(PlanMaxSize, PlanMaxTile)
    /\ NoBatch
    /\ InitWriter(FaultKinds, {"jpeg"}, {default_quality}, {FALSE}, {slide_tiff},
                  {AllImages},
                  {<< 1, 1 >>})
    /\ max_workers = 1
    /\ batch_size = 1

NextPlan ==
    \/ get_image_metadata
    \/ extract_begin

SpecPlan == InitPlan /\ [][NextPlan]_vars

\* whole conversions of images whose last tiles are narrower than the tile
\* size and whose patches do not fill the last batch
InitGrid ==
    /\ \E g \in GridSources, size \in GridSizes :
          /\ dim_ranges = dim_ranges_of(g, size[1], size[2])
          /\ envelopes = envelopes_of(g, size[1], size[2])
    /\ tile_size \in GridTileSizes
    /\ max_workers \in GridWorkers
    /\ batch_size \in GridBatchSizes
    /\ Constructed
    /\ InitWriter(FaultKinds, {"jpeg"}, {default_quality}, {FALSE}, {slide_tiff},
                  {AllImages}, {<< 1, 1 >>})
    /\ NoBatch

SpecGrid == InitGrid /\ [][Next]_vars

\* one process_tile job on a fresh canvas, its buffer numbered 1, 2, 3, ...
\* so that every sample tells its place in the buffer; the driver waits
InitTile ==
    /\ \E shape \in TileCanvasShapes :
          /\ dim_ranges = << << 0, 1, shape[2] >>, << 0, 1, shape[1] >> >>
          /\ envelopes = << 0, shape[2], 0, shape[1] >>
          /\ size_x = shape[2]
          /\ size_y = shape[1]
          /\ output_array = np_zeros(shape[1], shape[2])
    /\ tile_size \in TileSizes
    /\ \E tile_x \in TileIds, tile_y \in TileIds,
          width \in TileExtents, height \in TileExtents :
          futures = << [ pixels |-> [k \in 1..(width * height * Channels) |-> k],
                         tile_x |-> tile_x, tile_y |-> tile_y,
                         width |-> width, height |-> height,
                         state |-> "queued", callback |-> TRUE,
                         result |-> "pending" ] >>
    /\ faults \in { {}, {"assembly"} }
    /\ max_workers = 1
    /\ batch_size = 1
    /\ pc = "while"
    /\ error = "none"
    /\ patches = << >>
    /\ patch_ids = << >>
    /\ batch_start = 0
    /\ requests = << >>
    /\ regions = << >>
    /\ batch_patch_ids = << >>
    /\ regions_ready = << >>
    /\ cur = NoJob
    /\ jobs = << 1 >>
    /\ pool_queue = 0
    /\ over_released = FALSE
    /\ output_written = 0
    /\ pixel_size = << 1, 1 >>
    /\ compression = "jpeg"
    /\ quality = default_quality
    /\ pyramid_512 = FALSE
    /\ output_path = slide_tiff
    /\ images = AllImages
    /\ scale_factor = << 1, 1 >>
    /\ vips_image = NoImage
    /\ macro_image = NoImage
    /\ label_image = NoImage
    /\ philips_xml = NoXml
    /\ save_params = NoParams
    /\ files = [path \in Paths(output_path) |-> NoFile]
    /\ writes = << >>
    /\ log = {}
    /\ closes = 0
    /\ NoBatch

SpecTile == InitTile /\ [][Workers]_vars

\* the state in which extract_full_resolution_tiles has returned a canvas
\* of the given size; the writer stage reads the shape of the canvas only
Extracted(size, tsize) ==
    /\ dim_ranges = << << 0, 1, size[1] >>, << 0, 1, size[2] >> >>
    /\ envelopes = << 0, size[1], 0, size[2] >>
    /\ tile_size = tsize
    /\ max_workers = 1
    /\ batch_size = 1
    /\ pc = "extracted"
    /\ error = "none"
    /\ size_x = size[1]
    /\ size_y = size[2]
    /\ output_array = [shape |-> << size[2], size[1], Channels >>, data |-> << >>]
    /\ patches = << >>
    /\ patch_ids = << >>
    /\ batch_start = 0
    /\ requests = << >>
    /\ regions = << >>
    /\ batch_patch_ids = << >>
    /\ regions_ready = << >>
    /\ cur = NoJob
    /\ futures = << >>
    /\ jobs = << >>
    /\ pool_queue = 1
    /\ over_released = FALSE
    /\ output_written = 0
    /\ pixel_size = scale_factor

\* the writer stage alone, over rasters of real sizes: every configuration
\* and failure on a few rasters, and one configuration on every size
InitSave ==
    /\ NoBatch
    /\ \/ /\ InitWriter(SaveFaultKinds, Compressions, Qualities, BOOLEAN,
                        OutputPaths, SUBSET AllImages, ScaleFactors)
          /\ \E size \in RasterSamples, tsize \in SaveTileSizes :
                 Extracted(size, tsize)
       \/ /\ InitWriter({}, {"jpeg"}, {default_quality}, {FALSE}, {slide_tiff},
                        {AllImages}, {<< 1, 1 >>})
          /\ \E size \in LevelSizes \X LevelSizes, tsize \in SaveTileSizes :
                 Extracted(size, tsize)

SpecSave == InitSave /\ [][Writer]_vars

Terminated == pc \in {"done", "raised"}

\* ------------------------------------------------------------------------
\* batch_direct_convert.py: main, batch_convert and the worker processes of
\* its ProcessPoolExecutor. The conversion of one file is taken as a whole:
\* it writes the output file and returns, or raises.
\* ------------------------------------------------------------------------
NoResult == [success |-> FALSE, message |-> << >>]

\* the exception of a conversion swallowed and reported as a success
convert_single_file_swallows(task, raised) ==
    [input_file |-> task.input_file, output_file |-> task.output_file,
     success |-> TRUE,
     message |-> << "Converted successfully", task.output_file >>]

\* what convert_single_file returns after the conversion, as the dictionary
\* process_file_wrapper makes of it
convert_single_file_returns(task, raised) ==
    [input_file |-> task.input_file, output_file |-> task.output_file,
     success |-> ~raised,
     message |-> IF raised
                 THEN << "Failed to convert", task.input_file >>
                 ELSE << "Converted successfully", task.output_file >>]

\* the output file is never looked for
skips_never(skip, exists) == FALSE

\* if skip_existing and output_file.exists()
skips(skip, exists) == skip /\ exists

\* main up to the executor of batch_convert: the input directory is
\* checked, the files are found, one task per file is made and submitted
batch_main ==
    /\ main_pc = "main"
    /\ IF input_dir_kind # "dir"
       THEN /\ exit_status' = 1
            /\ main_pc' = "exited"
            /\ UNCHANGED << tasks, file_futures >>
       ELSE LET isyntax_files == find_isyntax_files(input_dir)
            IN  IF isyntax_files = << >>
                THEN /\ exit_status' = 0
                     /\ main_pc' = "exited"
                     /\ UNCHANGED << tasks, file_futures >>
                ELSE /\ tasks' = [k \in 1..Len(isyntax_files) |->
                                    [input_file |-> isyntax_files[k],
                                     output_file |-> generate_output_path(isyntax_files[k])]]
                     /\ file_futures' = [k \in 1..Len(isyntax_files) |->
                                            [state |-> "pending", result |-> NoResult]]
                     /\ main_pc' = "as_completed"
                     /\ UNCHANGED exit_status
    /\ UNCHANGED << batch_config_vars, output_dir, results, conversions, summary,
                    pool_broken, crash, converter_vars >>

\* the worker processes at work
running_files == { k \in 1..Len(file_futures) : file_futures[k].state = "running" }

\* a free worker process takes the oldest pending task: process_file_wrapper
\* and convert_single_file up to the construction of the converter
process_start(k) ==
    /\ main_pc = "as_completed"
    /\ ~pool_broken
    /\ file_futures[k].state = "pending"
    /\ \A j \in 1..(k - 1) : file_futures[j].state # "pending"
    /\ Cardinality(running_files) < file_workers
    /\ IF skips(skip_existing, output_dir[tasks[k].output_file].exists)
       THEN /\ file_futures' =
                  [file_futures EXCEPT ![k] =
                      [state |-> "finished",
                       result |-> [input_file |-> tasks[k].input_file,
                                   output_file |-> tasks[k].output_file,
                                   success |-> TRUE,
                                   message |-> << "Skipped (already exists)",
                                                  tasks[k].output_file >>]]]
            /\ UNCHANGED conversions
       ELSE /\ file_futures' = [file_futures EXCEPT ![k].state = "running"]
            /\ conversions' = Append(conversions, tasks[k].input_file)
    /\ UNCHANGED << batch_config_vars, output_dir, tasks, results, main_pc,
                    exit_status, summary, pool_broken, crash, converter_vars >>

\* the conversion of the file ends: the output file is written, or an
\* exception is caught by convert_single_file, the output file written
\* in part or not at all
process_finish(k) ==
    /\ main_pc = "as_completed"
    /\ ~pool_broken
    /\ file_futures[k].state = "running"
    /\ LET task == tasks[k]
           raised == task.input_file \in failing
       IN  /\ file_futures' =
                 [file_futures EXCEPT ![k] =
                     [state |-> "finished",
                      result |-> convert_single_file_returns(task, raised)]]
           /\ IF raised
              THEN \/ UNCHANGED output_dir
                   \/ output_dir' = [output_dir EXCEPT ![task.output_file] =
                                        [exists |-> TRUE, by |-> task.input_file,
                                         complete |-> FALSE]]
              ELSE output_dir' = [output_dir EXCEPT ![task.output_file] =
                                     [exists |-> TRUE, by |-> task.input_file,
                                      complete |-> TRUE]]
    /\ UNCHANGED << batch_config_vars, tasks, results, conversions, main_pc,
                    exit_status, summary, pool_broken, crash, converter_vars >>

\* a worker process dies during a conversion: the executor is broken and
\* every future that is not finished raises BrokenProcessPool
process_crash(k) ==
    /\ main_pc = "as_completed"
    /\ crash
    /\ file_futures[k].state = "running"
    /\ crash' = FALSE
    /\ pool_broken' = TRUE
    /\ file_futures' = [j \in 1..Len(file_futures) |->
                          IF file_futures[j].state \in {"pending", "running"}
                          THEN [file_futures[j] EXCEPT !.state = "raised"]
                          ELSE file_futures[j]]
    /\ UNCHANGED << batch_config_vars, output_dir, tasks, results, conversions,
                    main_pc, exit_status, summary, converter_vars >>

file_processes ==
    \E k \in 1..Len(file_futures) :
        \/ process_start(k)
        \/ process_finish(k)
        \/ process_crash(k)

\* one turn of the loop over as_completed: the result of a finished future
\* is appended, or the failure record of the except branch
as_completed_next ==
    /\ main_pc = "as_completed"
    /\ \E k \in 1..Len(file_futures) :
          /\ file_futures[k].state \in {"finished", "raised"}
          /\ results' = Append(results,
                 IF file_futures[k].state = "finished"
                 THEN file_futures[k].result
                 ELSE [input_file |-> tasks[k].input_file,
                       output_file |-> tasks[k].output_file,
                       success |-> FALSE,
                       message |-> << "Task execution failed", << >> >>])
          /\ file_futures' = [file_futures EXCEPT ![k].state = "collected"]
    /\ UNCHANGED << batch_config_vars, output_dir, tasks, conversions, main_pc,
                    exit_status, summary, pool_broken, crash, converter_vars >>

\* the summary of batch_convert, which then returns, and main with it
batch_summary ==
    /\ main_pc = "as_completed"
    /\ \A k \in 1..Len(file_futures) : file_futures[k].state = "collected"
    /\ LET successful == Cardinality({ k \in 1..Len(results) : results[k].success })
       IN  summary' = [successful |-> successful,
                       failed |-> Len(results) - successful]
    /\ exit_status' = 0
    /\ main_pc' = "exited"
    /\ UNCHANGED << batch_config_vars, output_dir, tasks, file_futures, results,
                    conversions, pool_broken, crash, converter_vars >>

NextBatch ==
    \/ batch_main
    \/ file_processes
    \/ as_completed_next
    \/ batch_summary

\* a file of the output directory
NoOutput == [exists |-> FALSE, by |-> << >>, complete |-> FALSE]
earlier_output(complete) ==
    [exists |-> TRUE, by |-> << "earlier run" >>, complete |-> complete]

\* the main process of the batch command holds no converter
NoConverter ==
    /\ InitWriter({}, {"jpeg"}, {default_quality}, {FALSE}, {slide_tiff},
                  {AllImages}, {<< 1, 1 >>})
    /\ dim_ranges = << << 0, 1, 0 >>, << 0, 1, 0 >> >>
    /\ envelopes = << 0, 0, 0, 0 >>
    /\ tile_size = 1024
    /\ max_workers = 1
    /\ batch_size = 1
    /\ pc = "none"
    /\ error = "none"
    /\ size_x = 0
    /\ size_y = 0
    /\ output_array = NoArray
    /\ patches = << >>
    /\ patch_ids = << >>
    /\ batch_start = 0
    /\ requests = << >>
    /\ regions = << >>
    /\ batch_patch_ids = << >>
    /\ regions_ready = << >>
    /\ cur = NoJob
    /\ futures = << >>
    /\ jobs = << >>
    /\ pool_queue = 0
    /\ over_released = FALSE
    /\ output_written = 0
    /\ pixel_size = << 0, 0 >>

\* the batch command is started on an input path, with an output
\* directory an earlier run may have written to
InitBatch ==
    /\ NoConverter
    /\ input_dir_kind \in {"missing", "file", "dir"}
    /\ input_dir \in (IF input_dir_kind = "dir" THEN InputDirs ELSE { {} })
    /\ skip_existing \in BOOLEAN
    /\ file_workers \in 1..MaxFileWorkers
    /\ LET found == find_isyntax_files(input_dir)
           inputs == { found[k] : k \in 1..Len(found) }
           outputs == { generate_output_path(name) : name \in inputs }
       IN  /\ existing_outputs \in
                 [outputs -> {NoOutput, earlier_output(TRUE), earlier_output(FALSE)}]
           /\ failing \in SUBSET inputs
    /\ crash \in BOOLEAN
    /\ output_dir = existing_outputs
    /\ tasks = << >>
    /\ file_futures = << >>
    /\ results = << >>
    /\ conversions = << >>
    /\ main_pc = "main"
    /\ summary = [successful |-> 0, failed |-> 0]
    /\ pool_broken = FALSE
    /\ exit_status = -1

SpecBatch == InitBatch /\ [][NextBatch]_vars

\* ------------------------------------------------------------------------
\* Claims about the patch planner and the dimension checks.
\* ------------------------------------------------------------------------
\* the patch list exists: planning succeeded
Planned == pc \notin {"convert", "extract"} /\ error # "ValueError"

\* image pixel columns and rows a patch addresses, from its source range
patch_columns(patch) ==
    { px \in 0..(size_x + tile_size) :
        /\ patch[1] <= dim_ranges[1][1] + px * dim_ranges[1][2]
        /\ dim_ranges[1][1] + px * dim_ranges[1][2] <= patch[2] }

patch_rows(patch) ==
    { py \in 0..(size_y + tile_size) :
        /\ patch[3] <= dim_ranges[2][1] + py * dim_ranges[2][2]
        /\ dim_ranges[2][1] + py * dim_ranges[2][2] <= patch[4] }

\* C1: the patches of create_patch_list, with tile counts ceil(width /
\* tile_size) and ceil(height / tile_size), cover [0,width) x [0,height)
\* exactly: every pixel lies in exactly one patch, no patch is empty or
\* reaches past the image, and when a dimension is not a multiple of the
\* tile size the last column (row) is strictly smaller than a tile.
C1_PatchesCoverExactly ==
    Planned =>
        /\ \A px \in 0..(size_x - 1), py \in 0..(size_y - 1) :
              Cardinality({ k \in 1..Len(patches) :
                              /\ px \in patch_columns(patches[k])
                              /\ py \in patch_rows(patches[k]) }) = 1
        /\ \A k \in 1..Len(patches) :
              /\ patch_columns(patches[k]) # {}
              /\ patch_rows(patches[k]) # {}
              /\ patch_columns(patches[k]) \subseteq 0..(size_x - 1)
              /\ patch_rows(patches[k]) \subseteq 0..(size_y - 1)
              /\ patches[k][1] <= patches[k][2]
              /\ patches[k][3] <= patches[k][4]
              /\ patches[k][2] < dim_ranges[1][3]
              /\ patches[k][4] < dim_ranges[2][3]
              /\ (size_x % tile_size # 0 /\ (patch_ids[k][1] + 1) * tile_size > size_x)
                    => Cardinality(patch_columns(patches[k])) < tile_size
              /\ (size_y % tile_size # 0 /\ (patch_ids[k][2] + 1) * tile_size > size_y)
                    => Cardinality(patch_rows(patches[k])) < tile_size

\* C1 witness: a planned grid whose width is not a multiple of the tile
\* size while its height is an exact multiple with more than one row
C1_Witness ==
    /\ Planned
    /\ size_x % tile_size # 0
    /\ size_x > tile_size
    /\ size_y % tile_size = 0
    /\ size_y > tile_size
    /\ tile_size > 1

\* the patches of the 1500 x 1100 raster at tile size 1024
scenario_ranges == << << 0, 1, 1500 >>, << 0, 1, 1100 >> >>
scenario_plan ==
    create_patch_list(scenario_ranges, tiles_of(scenario_ranges, 1024), << 1024, 1024 >>)

\* C2: the patch of grid cell (x, y) starts at origin + index * tile_size *
\* step on each axis and ends at min(start + tile_size * step - step,
\* axis end - step), so its realized size 1 + (end - start) / step is
\* min(tile_size, width - x * tile_size) by min(tile_size, height - y *
\* tile_size); the 1500 x 1100 raster at tile size 1024 gives a 2 x 2 grid
\* whose patch (1, 1) is 476 x 76 pixels.
C2_RealizedPatchSize ==
    /\ Planned =>
          \A k \in 1..Len(patches) :
              LET x == patch_ids[k][1]
                  y == patch_ids[k][2]
                  step == dim_ranges[1][2]
                  sz == region_size(patches[k], step, dim_ranges[2][2])
              IN  /\ patches[k][1] = dim_ranges[1][1] + x * tile_size * step
                  /\ patches[k][3] = dim_ranges[2][1] + y * tile_size * step
                  /\ patches[k][2] = Min(patches[k][1] + tile_size * step - step,
                                         dim_ranges[1][3] - step)
                  /\ patches[k][4] = Min(patches[k][3] + tile_size * step - step,
                                         dim_ranges[2][3] - step)
                  /\ sz[1] = Min(tile_size, size_x - x * tile_size)
                  /\ sz[2] = Min(tile_size, size_y - y * tile_size)
    /\ tiles_of(scenario_ranges, 1024) = << 2, 2 >>
    /\ Len(scenario_plan.patches) = 4
    /\ scenario_plan.patch_ids[4] = << 1, 1 >>
    /\ region_size(scenario_plan.patches[4], 1, 1) = << 476, 76 >>

\* C2 witness: a 2 x 2 grid whose patch (1, 1) is clipped on both axes
C2_Witness ==
    /\ Planned
    /\ Len(patches) = 4
    /\ tile_size = 2
    /\ patch_ids[4] = << 1, 1 >>
    /\ region_size(patches[4], dim_ranges[1][2], dim_ranges[2][2]) = << 1, 1 >>
    /\ dim_ranges[1][1] # dim_ranges[2][1]

\* (end - origin) / step is an integer
integral(dim_range) ==
    \E n \in 0..(dim_range[3] - dim_range[1]) : n * dim_range[2] = dim_range[3] - dim_range[1]

\* n is a power of two
power_of_two(n) == \E e \in 0..n : 2 ^ e = n

\* the dimension ranges amount to a configuration error
configuration_error ==
    \/ ~integral(dim_ranges[1])
    \/ ~integral(dim_ranges[2])
    \/ dim_ranges[1][2] # dim_ranges[2][2]
    \/ ~power_of_two(dim_ranges[1][2])

\* C10: when an axis's (end - origin) / step is not an integer, or the
\* steps differ or are not a power of two, the conversion raises before any
\* region request is issued, any assembly job is submitted or any output is
\* written; otherwise get_size returned exactly (end - origin) / step.
C10_ConfigurationErrorIsFatal ==
    /\ configuration_error =>
          /\ requests = << >>
          /\ futures = << >>
          /\ cur = NoJob
          /\ output_written = 0
          /\ pc \in {"convert", "extract", "raised", "closed"}
          /\ pc \in {"raised", "closed"} => error = "ValueError"
    /\ (~configuration_error /\ pc # "convert") =>
          /\ error # "ValueError"
          /\ size_x * dim_ranges[1][2] = dim_ranges[1][3] - dim_ranges[1][1]
          /\ size_y * dim_ranges[2][2] = dim_ranges[2][3] - dim_ranges[2][1]

\* C10 witness: equal steps that are not a power of two, with integer
\* lengths, made the conversion raise
C10_Witness ==
    /\ pc = "raised"
    /\ error = "ValueError"
    /\ integral(dim_ranges[1])
    /\ integral(dim_ranges[2])
    /\ dim_ranges[1][2] = dim_ranges[2][2]
    /\ output_array # NoArray

\* ------------------------------------------------------------------------
\* Claims about the fetch stage: assembly, failures, the pool, the barrier.
\* ------------------------------------------------------------------------
\* extract_full_resolution_tiles has returned the array
Returned == pc \in {"extracted", "done"}

\* the pool of the fetch stage exists
PoolCreated == pc \notin {"convert", "extract"} /\ error # "ValueError"

\* grid ids of the jobs whose process_tile failed
failed_tiles ==
    { << futures[k].tile_x, futures[k].tile_y >> :
        k \in { j \in 1..Len(futures) : futures[j].result = "failed" } }

\* array element p = <<row, column, channel>> lies in the destination
\* rectangle of future f
in_tile_rect(p, f) ==
    LET r == tile_rect(output_array, f.tile_x, f.tile_y, f.width, f.height)
    IN  /\ r.y_start <= p[1] /\ p[1] < r.y_end
        /\ r.x_start <= p[2] /\ p[2] < r.x_end

\* array element p lies in the scanned area
data_covered(p) ==
    in_envelope(dim_ranges[1][1] + p[2] * dim_ranges[1][2],
                dim_ranges[2][1] + p[1] * dim_ranges[2][2])

\* C3: with a tile source whose regions hold the pattern f(x, y), the
\* returned array equals f at every data-covered coordinate whose tile was
\* assembled, whatever the batch size, the worker count, the order in which
\* regions became ready and the interleaving of the workers.
C3_CanvasMatchesPattern ==
    Returned =>
        /\ output_array.shape = << size_y, size_x, Channels >>
        /\ \A p \in DOMAIN output_array.data :
              ( /\ data_covered(p)
                /\ << p[2] \div tile_size, p[1] \div tile_size >> \notin failed_tiles )
              => output_array.data[p] = Pattern(p[2], p[1], p[3])

\* C3 witness: four tiles assembled without a failure, the first job
\* submitted not being the first patch requested, part of the image lying
\* outside the data envelope
C3_Witness ==
    /\ Returned
    /\ Len(futures) = 4
    /\ failed_tiles = {}
    /\ << futures[1].tile_x, futures[1].tile_y >> # patch_ids[1]
    /\ \E p \in DOMAIN output_array.data : ~data_covered(p)

\* C4: a failure of one process_tile call stays inside its job: the fetch
\* goes on and returns normally, every patch is dispatched, every other
\* tile is in the array, and the rectangle of the failed job is untouched.
C4_TileFailureIsContained ==
    /\ (failed_tiles # {} /\ error = "none") =>
          /\ pc # "raised"
          /\ pc = "closed" \/ ENABLED Next
    /\ Returned =>
          /\ Len(futures) = Len(patches)
          /\ \A k \in 1..Len(futures) :
                /\ futures[k].result \in {"ok", "failed"}
                /\ \A p \in DOMAIN output_array.data :
                      in_tile_rect(p, futures[k]) =>
                          output_array.data[p] =
                              IF futures[k].result = "ok"
                              THEN make_planar(futures[k].pixels, futures[k].width,
                                               futures[k].height, p[3],
                                               p[1] - futures[k].tile_y * tile_size,
                                               p[2] - futures[k].tile_x * tile_size)
                              ELSE 0

\* C4 witness: the fetch returned although the first of four jobs failed
C4_Witness ==
    /\ Returned
    /\ Len(futures) = 4
    /\ futures[1].result = "failed"
    /\ \A k \in 2..4 : futures[k].result = "ok"

\* C5: a tile source that raises on one requested patch does not stop the
\* run: no error of the source surfaces to the caller of the conversion.
C5_SourceFailureDoesNotSurface ==
    ~(pc = "raised" /\ error = "SourceError")

\* C6: the array is filled with fill_color before fetching begins, so every
\* element that no assembly job wrote holds fill_color.
C6_UnwrittenPixelsHoldFillColor ==
    output_array # NoArray =>
        \A p \in DOMAIN output_array.data :
            (\A k \in 1..Len(futures) :
                ~(futures[k].result = "ok" /\ in_tile_rect(p, futures[k])))
            => output_array.data[p] = fill_color

\* futures submitted to the pool and not yet finished
in_flight ==
    Cardinality({ k \in 1..Len(futures) : futures[k].state \in {"queued", "running"} })

\* future k has given its permit back: through the callback run by its
\* worker, or through add_done_callback calling it at once
permit_released(k) ==
    \/ futures[k].callback /\ futures[k].state = "done"
    \/ ~futures[k].callback /\ ~(k = Len(futures) /\ pc = "add_done_callback")

\* permits taken by submit and not yet given back
permits_held ==
    Cardinality({ k \in 1..Len(futures) : ~permit_released(k) })
        + (IF pc = "pool_submit" THEN 1 ELSE 0)

\* C7: at every moment of the fetch stage at most max_workers jobs are
\* submitted and unfinished; every job gives back exactly the one permit
\* its submit took, the semaphore never being released above its initial
\* value; and submit waits while max_workers jobs are in flight.
C7_InFlightBounded ==
    PoolCreated =>
        /\ in_flight <= max_workers
        /\ pool_queue \in 0..max_workers
        /\ ~over_released
        /\ pool_queue + permits_held = max_workers
        /\ (pc = "acquire" /\ in_flight = max_workers) => ~ENABLED submit_acquire

\* C7 witness: in a later batch, submit waits with max_workers jobs in flight
C7_Witness ==
    /\ pc = "acquire"
    /\ batch_start > 0
    /\ max_workers = 2
    /\ in_flight = max_workers
    /\ pool_queue = 0

\* C8: once the with block is left, and so when the array is returned,
\* every patch has its job and every job has finished: none is queued or
\* running.
C8_ReturnsAfterAllJobsFinish ==
    pc \in {"wait_jobs", "extracted", "done"} =>
        /\ Len(futures) = Len(patches)
        /\ Len(jobs) = Len(futures)
        /\ \A k \in 1..Len(futures) : futures[k].state \in {"finished", "done"}

\* C8 witness: max_workers = 2 and batch_size = 2 on four patches, returned
C8_Witness ==
    /\ pc = "extracted"
    /\ max_workers = 2
    /\ batch_size = 2
    /\ Len(patches) = 4
    /\ Len(jobs) = 4

\* C9: under fair scheduling, with wait_any always returning a pending
\* region, the fetch stage terminates: the conversion reaches its end (done
\* or raised) with every submitted job run to its end, so no submit is left
\* waiting at the semaphore and the barrier has returned.
C9_FetchTerminates ==
    <>(/\ Terminated
       /\ cur = NoJob
       /\ \A k \in 1..Len(futures) : futures[k].state = "done")

\* C9 witness: a run with one worker and batches of one patch that ended
\* with four jobs submitted, one of them failed
C9_Witness ==
    /\ pc = "done"
    /\ max_workers = 1
    /\ batch_size = 1
    /\ Len(futures) = 4
    /\ \E k \in 1..4 : futures[k].result = "failed"

\* ------------------------------------------------------------------------
\* Claims about the writer: the directories of the output file.
\* ------------------------------------------------------------------------
output_file == files[output_path]

\* save_multi_directory_tiff_with_xml is over
Saved == pc \in {"pyramid_512", "done", "closed"} \/ (pc = "raised" /\ writes # << >>)

\* the output is the file the with block of tifffile wrote to its end
MultiDirectory == Saved /\ output_file.writer = "tifffile" /\ output_file.complete

\* what a directory holds: a pyramid level, the macro or the label image
directory_kind(directory) == directory.image.source

\* pyramid before macro before label
directory_rank(directory) ==
    CASE directory_kind(directory) = "WSI" -> 0
      [] directory_kind(directory) = "MACROIMAGE" -> 1
      [] OTHER -> 2

pyramid_part(directories) ==
    SelectSeq(directories, LAMBDA d : directory_kind(d) = "WSI")

\* C11: in the multi-directory output the pyramid levels 0..N come first
\* and in order, then the macro image if there is one, then the label image
\* if there is one; directory 0 is flagged full-resolution (subfiletype 0)
\* and every later directory reduced-resolution (subfiletype 1); with both
\* associated images the label is the last directory and the macro the one
\* before it.
C11_DirectoryOrder ==
    MultiDirectory =>
        LET D == output_file.directories
            n == Len(pyramid_part(D))
            with_macro == IF macro_image # NoImage THEN 1 ELSE 0
            with_label == IF label_image # NoImage THEN 1 ELSE 0
        IN  /\ n >= 1
            /\ Len(D) = n + with_macro + with_label
            /\ \A k \in 1..Len(D) :
                  /\ D[k].subfiletype = IF k = 1 THEN 0 ELSE 1
                  /\ k <= n => /\ directory_kind(D[k]) = "WSI"
                               /\ D[k].image.halvings = k - 1
                  /\ \A j \in 1..(k - 1) : directory_rank(D[j]) <= directory_rank(D[k])
            /\ macro_image # NoImage => D[n + 1].image = macro_image
            /\ label_image # NoImage => D[Len(D)].image = label_image
            /\ (macro_image # NoImage /\ label_image # NoImage) =>
                  /\ directory_kind(D[Len(D)]) = "LABELIMAGE"
                  /\ directory_kind(D[Len(D) - 1]) = "MACROIMAGE"

\* C11 witness: a file of three pyramid levels followed by the macro and
\* the label image
C11_Witness ==
    /\ MultiDirectory
    /\ Len(output_file.directories) = 5
    /\ directory_kind(output_file.directories[4]) = "MACROIMAGE"
    /\ directory_kind(output_file.directories[5]) = "LABELIMAGE"

\* the writes made to the output path, in order
output_writes == SelectSeq(writes, LAMBDA w : w.path = output_path)

\* the writes that went to another path than the main output
secondary_writes == SelectSeq(writes, LAMBDA w : w.path # output_path)

\* the save of the additional 512 x 512 pyramid raised
secondary_failed ==
    \E k \in 1..Len(secondary_writes) : secondary_writes[k].raised

\* the try block of save_multi_directory_tiff_with_xml raised
primary_failed ==
    \E k \in 1..Len(writes) : writes[k].writer = "tifffile" /\ writes[k].raised

\* C12: when a step of the multi-directory assembly fails (pyramid
\* generation, the write of a level, of the macro or of the label image),
\* the failure is logged as an error and exactly one fallback save follows,
\* of the main image alone with the save parameters, to the same path; the
\* failure itself never reaches the caller (only a failure of the fallback
\* save does, or of the later save of the 512 x 512 pyramid); without a
\* failure there is no fallback save.
C12_FallbackOnFailure ==
    Saved =>
        /\ primary_failed =>
              /\ "error: Failed to create multi-directory TIFF with tifffile" \in log
              /\ Len(output_writes) = 2
              /\ output_writes[1].writer = "tifffile"
              /\ output_writes[2].writer = "pyvips"
              /\ output_file.writer = "pyvips"
              /\ output_file.image = vips_image
              /\ output_file.image.source = "WSI"
              /\ output_file.params = save_params
              /\ output_file.directories = << >>
              /\ error \in {"none", "pyvips.Error"}
              /\ error = "pyvips.Error" <=> (output_writes[2].raised \/ secondary_failed)
              /\ error = "none" => output_file.complete
        /\ ~primary_failed =>
              /\ Len(output_writes) = 1
              /\ output_file.writer = "tifffile"
              /\ output_file.complete
              /\ error = (IF secondary_failed THEN "pyvips.Error" ELSE "none")

\* C12 witness: the write of the label image failed after the levels and
\* the macro image were written; the fallback save replaced the file and
\* convert returned
C12_Witness ==
    /\ pc = "done"
    /\ primary_failed
    /\ macro_image # NoImage
    /\ label_image # NoImage
    /\ faults = SaveFaultKinds \ {"label_write"}
    /\ output_file.complete

\* ------------------------------------------------------------------------
\* Claims about the whole conversion.
\* ------------------------------------------------------------------------
\* C13: every conversion whose dimension checks pass ends with an output
\* file written to its end, the multi-directory file or the fallback
\* pyramid, even when the fallback save itself never fails.
C13_RunEndsWithOutput ==
    (pc = "closed" /\ valid_config(dim_ranges) /\ "fallback" \in faults) =>
        /\ output_file.writer \in {"tifffile", "pyvips"}
        /\ output_file.complete

\* C14: the source, open from construction on, is closed exactly once, when
\* the with block of main is left, however convert ended (it returned, a
\* dimension check raised, the fetch raised, the fallback save raised);
\* after the close nothing runs any more: no step of the conversion and no
\* worker.
C14_SourceClosedOnce ==
    /\ closes \in {0, 1}
    /\ closes = 1 <=> pc = "closed"
    /\ pc = "closed" =>
          /\ ~ENABLED Next
          /\ cur = NoJob
          /\ \A k \in 1..Len(futures) : futures[k].state = "done"
          /\ error \in {"none", "ValueError", "SourceError", "pyvips.Error"}

\* C14 witness: region.get raised while jobs were in the pool; the source
\* was closed after the pool had shut down
C14_Witness ==
    /\ pc = "closed"
    /\ closes = 1
    /\ error = "SourceError"
    /\ Len(futures) >= 2

\* ------------------------------------------------------------------------
\* Claims about the pyramid levels and their directories.
\* ------------------------------------------------------------------------
\* the images of the pyramid directories of the multi-directory output:
\* the list generate_pyramid_levels returned
written_levels ==
    [k \in 1..Len(pyramid_part(output_file.directories)) |->
        pyramid_part(output_file.directories)[k].image]

\* C15: the first level is the input raster itself and every later level
\* has floor(w / 2) by floor(h / 2) of the size of the level before it.
C15_LevelsHalveRoundingDown ==
    MultiDirectory =>
        /\ written_levels[1] = vips_image
        /\ \A k \in 2..Len(written_levels) :
              /\ written_levels[k].width = written_levels[k - 1].width \div 2
              /\ written_levels[k].height = written_levels[k - 1].height \div 2

\* C16: generation ends with the base level in the list, and no level
\* other than the base has a width or a height below 256.
C16_NoLevelBelowFloor ==
    MultiDirectory =>
        /\ Len(written_levels) >= 1
        /\ \A k \in 2..Len(written_levels) :
              /\ written_levels[k].width >= 256
              /\ written_levels[k].height >= 256

\* the codec tifffile is handed for a configured compression
configured_codec == IF lower(compression) = "none" THEN "None" ELSE lower(compression)

\* C17: every pyramid directory of the multi-directory output is written
\* with the configured codec (jpeg, lzw, deflate or none) and, for jpeg,
\* with the configured quality.
C17_ConfiguredCompression ==
    MultiDirectory =>
        \A k \in 1..Len(pyramid_part(output_file.directories)) :
            LET d == pyramid_part(output_file.directories)[k]
            IN  /\ d.compression = configured_codec
                /\ configured_codec = "jpeg" => d.compressionargs = << quality >>

\* C20: the level list handed to the XML generator has as many levels as
\* the pyramid written to the file, with the same width and height at each
\* level.
C20_XmlLevelsMatchWritten ==
    MultiDirectory =>
        /\ Len(philips_xml.pyramid_levels) = Len(written_levels)
        /\ \A k \in 1..Len(written_levels) :
              k <= Len(philips_xml.pyramid_levels) =>
                  /\ philips_xml.pyramid_levels[k].width = written_levels[k].width
                  /\ philips_xml.pyramid_levels[k].height = written_levels[k].height

\* C18: every pyramid directory is tiled at the configured tile size and
\* carries the resolution 10000 / pixel size (1 if the pixel size is not
\* positive) per centimetre; the macro and the label directory have no
\* tile size, the reduced-resolution flag and no resolution.
C18_TilesAndResolution ==
    (Saved /\ output_file.writer = "tifffile") =>
        \A k \in 1..Len(output_file.directories) :
            LET d == output_file.directories[k]
            IN  IF directory_kind(d) = "WSI"
                THEN /\ d.tile = << tile_size, tile_size >>
                     /\ d.resolutionunit = "CENTIMETER"
                     /\ Len(d.resolution) = 2
                     /\ \A axis \in 1..2 :
                           d.resolution[axis] =
                               IF pixel_size[axis] > 0
                               THEN << 10000, pixel_size[axis] >>
                               ELSE << 1, 1 >>
                ELSE /\ d.tile = << >>
                     /\ d.subfiletype = 1
                     /\ d.resolution = << >>
                     /\ d.resolutionunit = "None"

\* C18 witness: a file with two pyramid levels, the macro and the label
\* image, of a source that reports a positive pixel size
C18_Witness ==
    /\ MultiDirectory
    /\ Len(written_levels) = 2
    /\ Len(output_file.directories) = 4
    /\ pixel_size = << 1, 2 >>

\* the extraction of the image of a kind was given up with a warning
extraction_failed(kind) == ("warning: Failed to extract " \o kind \o " image") \in log

\* C19: a failure while the macro (or the label) image is extracted or
\* decoded is logged as a warning and the image is left out; the
\* conversion goes on, the other image is still extracted and written, and
\* the file is the one written for a source without that image.
C19_AuxiliaryFailureOmitsImage ==
    /\ (extraction_failed("macro") /\ pc # "label_image") => macro_image = NoImage
    /\ extraction_failed("label") => label_image = NoImage
    /\ (extraction_failed("macro") \/ extraction_failed("label")) =>
          /\ error \in {"none", "pyvips.Error"}
          /\ pc # "closed" => ENABLED Next
    /\ (pc \notin {"extracted", "macro_image", "label_image"}
          /\ "LABELIMAGE" \in images /\ ~extraction_failed("label")) =>
          label_image = decoded_image("LABELIMAGE")
    /\ (pc \notin {"extracted", "macro_image"}
          /\ "MACROIMAGE" \in images /\ ~extraction_failed("macro")) =>
          macro_image = decoded_image("MACROIMAGE")
    /\ MultiDirectory =>
          \E rounding \in {"nearest", "down"} :
              output_file.directories =
                  all_directories(
                      generate_pyramid_levels(vips_image, rounding),
                      IF "MACROIMAGE" \in images /\ ~extraction_failed("macro")
                      THEN decoded_image("MACROIMAGE") ELSE NoImage,
                      IF "LABELIMAGE" \in images /\ ~extraction_failed("label")
                      THEN decoded_image("LABELIMAGE") ELSE NoImage)

\* C19 witness: the macro image could not be extracted; the file holds the
\* pyramid and, last, the label image
C19_Witness ==
    /\ pc = "closed"
    /\ MultiDirectory
    /\ extraction_failed("macro")
    /\ "MACROIMAGE" \in images
    /\ directory_kind(output_file.directories[Len(output_file.directories)]) = "LABELIMAGE"
    /\ \A k \in 1..Len(output_file.directories) :
          directory_kind(output_file.directories[k]) # "MACROIMAGE"

\* ------------------------------------------------------------------------
\* C21: the additional 512 x 512 pyramid.
\* ------------------------------------------------------------------------
\* save_pyramidal_tiff returned to convert
SaveReturned == pc \in {"done", "closed"} /\ error = "none"

\* when save_pyramidal_tiff has returned, a second file exists exactly when
\* pyramid_512 was asked for; it was written last, after every write of the
\* main output, at another path, from the same image, with 512 x 512 tiles
\* and the main output's other save parameters
SecondaryPyramidWritten ==
    SaveReturned =>
        /\ Len(secondary_writes) = (IF pyramid_512 THEN 1 ELSE 0)
        /\ \A path \in DOMAIN files \ {output_path} :
               files[path].writer # "none" <=> pyramid_512
        /\ pyramid_512 =>
               /\ Len(writes) >= 2
               /\ writes[Len(writes)].path # output_path
               /\ \A k \in 1..(Len(writes) - 1) : writes[k].path = output_path
               /\ LET file == files[writes[Len(writes)].path]
                  IN  /\ file.complete
                      /\ file.image = vips_image
                      /\ DOMAIN file.params = DOMAIN save_params
                      /\ file.params.tile_width = 512
                      /\ file.params.tile_height = 512
                      /\ \A key \in DOMAIN save_params \ {"tile_width", "tile_height"} :
                             file.params[key] = save_params[key]

\* C21: the secondary fixed-512 pyramid file is written if and only if
\* pyramid_512 is requested, after the main output, to a different path,
\* with tile width and height 512 and every other save parameter equal to
\* the main configuration, and writing it leaves the main output file as
\* it was
C21_SecondaryPyramid ==
    /\ []SecondaryPyramidWritten
    /\ [][pc = "pyramid_512" => files'[output_path] = files[output_path]]_vars

\* a 512 x 512 pyramid was written beside a main output that tifffile wrote
\* under a directory whose name holds an extension
C21_Witness ==
    /\ pc = "done"
    /\ pyramid_512
    /\ Len(output_path) > Len(slide_tiff)
    /\ output_file.writer = "tifffile"
    /\ \E path \in DOMAIN files \ {output_path} :
           files[path].complete /\ files[path].params.tile_width = 512

\* ------------------------------------------------------------------------
\* C22: the exit status of the two commands.
\* ------------------------------------------------------------------------
\* the single-file command has ended with an exception out of convert
SingleFileFailed == pc = "closed" /\ error # "none"

\* the batch command has ended, no worker process died, and the conversion
\* of a file raised
BatchFileFailed ==
    /\ main_pc = "exited"
    /\ ~pool_broken
    /\ \E k \in 1..Len(results) : ~results[k].success

\* the single-file command leaves with a non-zero status when the
\* conversion raised
SingleFileExitStatus == SingleFileFailed => exit_status # 0

\* C22: a command that could not convert a requested file exits with a
\* non-zero status, the single-file command and the batch command alike
C22_FailureExitsNonZero ==
    /\ SingleFileExitStatus
    /\ BatchFileFailed => exit_status # 0

\* ------------------------------------------------------------------------
\* C23: whole-file failures in a batch.
\* ------------------------------------------------------------------------
\* the input files batch_convert found
discovered == { tasks[k].input_file : k \in 1..Len(tasks) }

\* the positions of the file's results
results_for(name) == { k \in 1..Len(results) : results[k].input_file = name }

\* the files a converter was constructed for
converted == { conversions[k] : k \in 1..Len(conversions) }

\* the file was reported as skipped
skipped(name) ==
    \E k \in results_for(name) : results[k].message[1] = "Skipped (already exists)"

\* the batch ran and has ended
BatchEnded == main_pc = "exited" /\ tasks # << >>

\* C23: a file whose conversion raises is reported as a failed result that
\* carries the file's name, and the other files are converted all the
\* same; at the end of the batch there is exactly one result per discovered
\* input file, and successful + failed is the number of tasks
C23_FailuresAreContained ==
    /\ \A name \in discovered : Cardinality(results_for(name)) <= 1
    /\ \A k \in 1..Len(results) : results[k].input_file \in discovered
    /\ BatchEnded =>
          /\ Len(results) = Len(tasks)
          /\ \A name \in discovered : Cardinality(results_for(name)) = 1
          /\ summary.successful + summary.failed = Len(tasks)
          /\ summary.failed =
                Cardinality({ k \in 1..Len(results) : ~results[k].success })
          /\ ~pool_broken =>
                /\ \A name \in discovered : name \in converted \/ skipped(name)
                /\ \A k \in 1..Len(results) :
                      LET r == results[k]
                      IN  IF r.input_file \in failing \cap converted
                          THEN /\ ~r.success
                               /\ r.message = << "Failed to convert", r.input_file >>
                          ELSE r.success

\* C23 witness: one worker process; the conversion of the first file
\* raised, the second file was converted after it
C23_Witness ==
    /\ BatchEnded
    /\ ~pool_broken
    /\ file_workers = 1
    /\ Len(tasks) >= 2
    /\ conversions = << tasks[1].input_file, tasks[2].input_file >>
    /\ tasks[1].input_file \in failing
    /\ \E k \in results_for(tasks[1].input_file) : ~results[k].success
    /\ \E k \in results_for(tasks[2].input_file) :
          /\ results[k].success
          /\ results[k].message[1] = "Converted successfully"
    /\ output_dir[tasks[2].output_file].complete
    /\ summary = [successful |-> 1, failed |-> 1]

\* ------------------------------------------------------------------------
\* C24: skip_existing.
\* ------------------------------------------------------------------------
\* with skip_existing, an output file that was there before the batch is
\* never touched and its input file never opened; at the end of a batch in
\* which no worker process died, such a file is reported as skipped, and
\* without skip_existing every file is converted
ExistingOutputsKept ==
    /\ skip_existing =>
          \A k \in 1..Len(tasks) :
              existing_outputs[tasks[k].output_file].exists =>
                  /\ tasks[k].input_file \notin converted
                  /\ output_dir[tasks[k].output_file] =
                        existing_outputs[tasks[k].output_file]
    /\ (BatchEnded /\ ~pool_broken) =>
          \A k \in 1..Len(tasks) :
              IF skip_existing /\ existing_outputs[tasks[k].output_file].exists
              THEN \E j \in results_for(tasks[k].input_file) :
                      /\ results[j].success
                      /\ results[j].message[1] = "Skipped (already exists)"
              ELSE skip_existing \/ tasks[k].input_file \in converted

\* a worker process takes a task: with skip_existing and the output file
\* there, the task ends at once as a success, nothing opened and nothing
\* written; otherwise a converter is constructed for the input file
TaskTaken ==
    \A k \in 1..Len(file_futures) :
        (file_futures[k].state = "pending"
            /\ file_futures'[k].state \in {"running", "finished"}) =>
            IF skip_existing /\ output_dir[tasks[k].output_file].exists
            THEN /\ file_futures'[k].state = "finished"
                 /\ file_futures'[k].result.success
                 /\ file_futures'[k].result.message[1] = "Skipped (already exists)"
                 /\ conversions' = conversions
                 /\ output_dir' = output_dir
            ELSE /\ file_futures'[k].state = "running"
                 /\ conversions' = Append(conversions, tasks[k].input_file)

\* C24: with skip_existing enabled, a file whose output path already
\* exists is reported as success without opening the source or writing
\* anything, the existing output file is left as it was, and a batch run
\* again converts only the files that have no output yet; with skip_existing
\* disabled the file is converted regardless
C24_SkipExisting ==
    /\ []ExistingOutputsKept
    /\ [][TaskTaken]_vars

\* C24 witness: a batch run again after an interruption: the first file's
\* output, written in part by the earlier run, is kept and the file
\* skipped; the second file is converted
C24_Witness ==
    /\ BatchEnded
    /\ skip_existing
    /\ ~pool_broken
    /\ Len(tasks) = 2
    /\ output_dir[tasks[1].output_file] = earlier_output(FALSE)
    /\ skipped(tasks[1].input_file)
    /\ conversions = << tasks[2].input_file >>
    /\ output_dir[tasks[2].output_file] =
          [exists |-> TRUE, by |-> tasks[2].input_file, complete |-> TRUE]

\* ------------------------------------------------------------------------
\* C30: the output paths of one batch.
\* ------------------------------------------------------------------------
\* C30: distinct discovered input files have distinct output paths, so no
\* two worker processes convert into the same output file at once, and a
\* file is skipped only for an output that was there before the batch
C30_DistinctOutputPaths ==
    /\ \A i, j \in 1..Len(tasks) :
          i # j => tasks[i].output_file # tasks[j].output_file
    /\ \A i, j \in running_files :
          i # j => tasks[i].output_file # tasks[j].output_file
    /\ \A k \in 1..Len(tasks) :
          skipped(tasks[k].input_file) =>
              existing_outputs[tasks[k].output_file].exists

\* two worker processes convert into one output file at once
SharedOutputRace ==
    \E i, j \in running_files :
        i # j /\ tasks[i].output_file = tasks[j].output_file

\* a file was skipped for the output another file of the batch wrote
SkippedForAnothersOutput ==
    \E k \in 1..Len(tasks) :
        /\ skipped(tasks[k].input_file)
        /\ ~existing_outputs[tasks[k].output_file].exists

\* ------------------------------------------------------------------------
\* C25: the document generate_xml returns, read line by line.
\* ------------------------------------------------------------------------
\* generate_xml has just returned its document to save_pyramidal_tiff
XmlGenerated == pc = "save_multi"

\* the positions of the lines that open an element of the type
opening_lines(doc, object_type) ==
    { p \in 1..Len(doc) : doc[p] = << "DataObject", object_type >> }

\* the k-th position of a set of positions
nth_position(positions, k) ==
    CHOOSE p \in positions : Cardinality({ q \in positions : q < p }) = k - 1

\* the positions from p up to the line that closes the element opened at p
RECURSIVE element_end(_, _, _)
element_end(doc, p, depth) ==
    IF p > Len(doc) THEN Len(doc)
    ELSE IF doc[p][1] = "DataObject" THEN element_end(doc, p + 1, depth + 1)
    ELSE IF doc[p][1] = "/DataObject"
    THEN (IF depth = 1 THEN p ELSE element_end(doc, p + 1, depth - 1))
    ELSE element_end(doc, p + 1, depth)

\* the values of the attribute of the name among lines first..last
attribute_values(doc, first, last, name) ==
    { doc[p][3] : p \in { q \in first..last :
                             /\ Len(doc[q]) = 3
                             /\ doc[q][1] = "Attribute"
                             /\ doc[q][2] = name } }

\* the image types of the scanned-image entries, in document order
scanned_image_types(doc) ==
    LET entries == opening_lines(doc, "DPScannedImage")
    IN  [k \in 1..Cardinality(entries) |->
            LET p == nth_position(entries, k)
                \* the lines of the entry itself, its inner elements left out
                own == { q \in p..element_end(doc, p, 0) :
                           \A r \in opening_lines(doc, "PixelDataRepresentation") :
                               ~(r <= q /\ q <= element_end(doc, r, 0)) }
            IN  { doc[q][3] : q \in { o \in own : /\ Len(doc[o]) = 3
                                                  /\ doc[o][2] = "PIM_DP_IMAGE_TYPE" } }]

\* C25: the document holds exactly one WSI scanned-image entry, with one
\* PixelDataRepresentation per supplied level, numbered 0..n-1 in list
\* order, with that level's width and height and the pixel spacing
\* base * 2^i; a MACROIMAGE entry is there exactly when macro data was
\* supplied, a LABELIMAGE entry exactly when label data was supplied, and
\* the entries come in the order WSI, macro, label
C25_XmlDocument ==
    XmlGenerated =>
        LET doc == philips_xml.document
            levels == philips_xml.pyramid_levels
            base == philips_xml.wsi_info.pixel_spacing
            wsi == nth_position(opening_lines(doc, "DPScannedImage"), 1)
            representations == opening_lines(doc, "PixelDataRepresentation")
        IN  /\ scanned_image_types(doc) =
                  << {"WSI"} >>
                  \o (IF philips_xml.macro_image_data # << >>
                      THEN << {"MACROIMAGE"} >> ELSE << >>)
                  \o (IF philips_xml.label_image_data # << >>
                      THEN << {"LABELIMAGE"} >> ELSE << >>)
            /\ Cardinality(representations) = Len(levels)
            /\ \A k \in 1..Len(levels) :
                  LET p == nth_position(representations, k)
                      last == element_end(doc, p, 0)
                  IN  /\ wsi < p /\ last < element_end(doc, wsi, 0)
                      /\ attribute_values(doc, p, last,
                             "PIIM_PIXEL_DATA_REPRESENTATION_NUMBER") = {k - 1}
                      /\ attribute_values(doc, p, last,
                             "PIIM_PIXEL_DATA_REPRESENTATION_COLUMNS") = {levels[k].width}
                      /\ attribute_values(doc, p, last,
                             "PIIM_PIXEL_DATA_REPRESENTATION_ROWS") = {levels[k].height}
                      /\ attribute_values(doc, p, last, "DICOM_PIXEL_SPACING") =
                            { << base[1] * (2 ^ (k - 1)), base[2] >> }

\* C25 witness: a document for three levels of a slide with a positive
\* pixel size, with macro data and without label data
C25_Witness ==
    /\ XmlGenerated
    /\ Len(philips_xml.pyramid_levels) = 3
    /\ philips_xml.wsi_info.pixel_spacing[1] > 0
    /\ philips_xml.macro_image_data # << >>
    /\ philips_xml.label_image_data = << >>
    /\ Cardinality(opening_lines(philips_xml.document, "DPScannedImage")) = 2

\* ------------------------------------------------------------------------
\* C26: the destination rectangles of the assembly jobs.
\* ------------------------------------------------------------------------
\* the rectangle of the canvas the process_tile call of future f writes
job_rect(f) == tile_rect(output_array, f.tile_x, f.tile_y, f.width, f.height)

\* the rectangle holds no pixel
empty_rect(r) == r.x_end <= r.x_start \/ r.y_end <= r.y_start

\* two rectangles have a pixel in common
rects_overlap(a, b) ==
    /\ ~empty_rect(a)
    /\ ~empty_rect(b)
    /\ a.x_start < b.x_end /\ b.x_start < a.x_end
    /\ a.y_start < b.y_end /\ b.y_start < a.y_end

\* C26: no two assembly jobs write the same canvas pixel: distinct jobs
\* have distinct grid ids, and their destination rectangles (offset grid
\* id * tile size, extent the realized size clipped to the canvas) are
\* disjoint, so the concurrent writes to the canvas never race
C26_JobsWriteDisjoint ==
    \A j, k \in 1..Len(futures) :
        j # k =>
            /\ << futures[j].tile_x, futures[j].tile_y >> #
                  << futures[k].tile_x, futures[k].tile_y >>
            /\ ~rects_overlap(job_rect(futures[j]), job_rect(futures[k]))

\* C26 witness: two jobs run at once on neighbouring grid cells, the right
\* one narrower than the tile size
C26_Witness ==
    \E j, k \in 1..Len(futures) :
        /\ futures[j].state = "running"
        /\ futures[k].state = "running"
        /\ futures[j].tile_y = futures[k].tile_y
        /\ futures[j].tile_x + 1 = futures[k].tile_x
        /\ futures[j].width = tile_size
        /\ futures[k].width < tile_size
        /\ ~empty_rect(job_rect(futures[j]))
        /\ ~empty_rect(job_rect(futures[k]))

\* ------------------------------------------------------------------------
\* C27: batches, requests and dispatch.
\* ------------------------------------------------------------------------
\* the lists of a list of lists, joined
RECURSIVE flatten(_)
flatten(seqs) ==
    IF seqs = << >> THEN << >> ELSE Head(seqs) \o flatten(Tail(seqs))

\* the grid ids of the jobs dispatched so far, in order of dispatch
dispatched_ids ==
    [k \in 1..Len(futures) |-> << futures[k].tile_x, futures[k].tile_y >>]

\* the requests made so far are the first batches of the partition of the
\* patch list into consecutive batches of batch_size; a patch is
\* dispatched at most once, and only once its batch was requested; between
\* two dispatches, every requested patch is either pending or dispatched;
\* when the fetch returns, every batch was requested and every patch
\* dispatched exactly once
BatchesDispatched ==
    LET requested == flatten(requests)
    IN  /\ requested = SubSeq(patches, 1, Len(requested))
        /\ \A b \in 1..Len(requests) :
              /\ requests[b] # << >>
              /\ Len(requests[b]) <= batch_size
              /\ b * batch_size <= Len(patches) => Len(requests[b]) = batch_size
              /\ b * batch_size > Len(patches) =>
                    Len(requests[b]) = Len(patches) - (b - 1) * batch_size
        /\ \A j, k \in 1..Len(futures) : j # k => dispatched_ids[j] # dispatched_ids[k]
        /\ \A j \in 1..Len(futures) :
              \E k \in 1..Len(requested) : dispatched_ids[j] = patch_ids[k]
        /\ (pc \in {"batch", "while", "for", "acquire", "pool_submit"}) =>
              Len(futures) + Len(regions) = Len(requested)
        /\ pc = "extracted" =>
              /\ requested = patches
              /\ Len(requests) = ceil_div(Len(patches), batch_size)
              /\ Len(futures) = Len(patches)
              /\ \A k \in 1..Len(patches) :
                    Cardinality({ j \in 1..Len(futures) :
                                    dispatched_ids[j] = patch_ids[k] }) = 1

\* a request is made only when no region of the batch before is pending
\* and every patch requested so far has been dispatched, and it adds one
\* request
RequestAfterDrain ==
    requests' # requests =>
        /\ regions = << >>
        /\ regions_ready = << >>
        /\ Len(futures) = Len(flatten(requests))
        /\ Len(requests') = Len(requests) + 1

\* C27: the patch list is cut into consecutive batches of batch_size, the
\* last possibly shorter; one multi-region request is made per batch; each
\* ready region is dispatched to the pool and removed from the pending
\* list until it is empty; the next request comes only then; every patch
\* is dispatched to assembly exactly once
C27_BatchesInOrder ==
    /\ []BatchesDispatched
    /\ [][RequestAfterDrain]_vars

\* C27 witness: four patches in batches of three: a full batch, then a
\* batch of one; the regions of the first batch did not become ready in the
\* order they were requested in
C27_Witness ==
    /\ pc = "extracted"
    /\ Len(patches) = 4
    /\ batch_size = 3
    /\ Len(requests) = 2
    /\ Len(requests[1]) = 3
    /\ Len(requests[2]) = 1
    /\ dispatched_ids[1] # patch_ids[1]
    /\ dispatched_ids[4] = patch_ids[4]

\* ------------------------------------------------------------------------
\* C29: the two pending lists of a batch.
\* ------------------------------------------------------------------------
\* C29: the pending regions and the pending grid ids have the same length
\* and correspond position by position: the grid id at a position is that
\* of the patch the region at the position was requested for; so a ready
\* region is assembled at the grid id of its patch, whatever the order in
\* which regions become ready and however many wait_any returns at once
C29_PendingListsAligned ==
    /\ Len(regions) = Len(batch_patch_ids)
    /\ \A i \in 1..Len(regions) :
          /\ regions[i].range = patches[regions[i].id]
          /\ batch_patch_ids[i] = patch_ids[regions[i].id]
    /\ \A i \in 1..Len(regions_ready) :
          \E j \in 1..Len(regions) : regions[j] = regions_ready[i]
    /\ cur # NoJob =>
          /\ cur.patch_id = patch_ids[cur.region.id]
          /\ << cur.tile_x, cur.tile_y >> = patch_ids[cur.region.id]
    /\ pc \in {"pool_submit", "add_done_callback"} =>
          cur # NoJob
    /\ pc = "add_done_callback" =>
          dispatched_ids[Len(futures)] = patch_ids[cur.region.id]

\* C29 witness: one region of a batch of three was dispatched; wait_any
\* then returned the two others at once, the later one first, and that one
\* is being submitted
C29_Witness ==
    /\ pc = "add_done_callback"
    /\ batch_size = 3
    /\ Len(futures) = 2
    /\ Len(regions) = 2
    /\ Len(regions_ready) = 2
    /\ regions_ready[1] = regions[2]
    /\ cur.region = regions[2]

\* ------------------------------------------------------------------------
\* C28: what process_tile writes.
\* ------------------------------------------------------------------------
\* the process_tile call of future k has ended
tile_processed(k) == futures[k].state \in {"finished", "done"}

\* C28: process_tile copies sample c of tile pixel (col, row), found in the
\* interleaved buffer at index 3 * (row * width + col) + c, to the canvas
\* at (tile_y * tile_size + row, tile_x * tile_size + col, c) for the
\* rows and columns within the realized size and inside the canvas, and
\* changes nothing else; a call that raised changed nothing
C28_TilePlacement ==
    \A k \in 1..Len(futures) :
        (Len(futures) = 1 /\ tile_processed(k)) =>
            LET f == futures[k]
            IN  \A p \in DOMAIN output_array.data :
                    LET row == p[1] - f.tile_y * tile_size
                        col == p[2] - f.tile_x * tile_size
                    IN  IF /\ f.result = "ok"
                           /\ 0 <= row /\ row < f.height
                           /\ 0 <= col /\ col < f.width
                        THEN output_array.data[p] =
                                 f.pixels[3 * (row * f.width + col) + p[3] + 1]
                        ELSE output_array.data[p] = 0

\* C28 witness: a tile of 2 x 2 pixels placed at grid cell (1, 0) of a
\* canvas 3 pixels wide and 2 high: the left column of the tile is written,
\* the right column lies past the canvas
C28_Witness ==
    /\ Len(futures) = 1
    /\ tile_processed(1)
    /\ futures[1].result = "ok"
    /\ output_array.shape = << 2, 3, Channels >>
    /\ tile_size = 2
    /\ futures[1].tile_x = 1 /\ futures[1].tile_y = 0
    /\ futures[1].width = 2 /\ futures[1].height = 2
    /\ output_array.data[<< 1, 2, 0 >>] = 7
    /\ output_array.data[<< 0, 1, 0 >>] = 0

====
